---- MODULE Spec2Model ----
(***************************************************************************)
(* IceBox (src/bot.py): a chat bot that stores notes ("ideas"), freezes    *)
(* them for a number of days and shows them again once thawed.  The model  *)
(* holds the SQLite tables, the per-user FSM state of the dispatcher, the  *)
(* inline buttons the bot has sent to each user, the payment gateway and   *)
(* the clock.  One action per handler.                                     *)
(***************************************************************************)
EXTENDS Integers, Sequences, FiniteSets, TLC

(***************************************************************************)
(* Time.  The clock counts ticks; a timestamp written by Python            *)
(* (datetime.now(), local time, sub-second resolution) is a tick count, a  *)
(* timestamp produced by SQLite (datetime('now'), CURRENT_TIMESTAMP) is    *)
(* UTC truncated to whole seconds.  Both are stored as text of the form    *)
(* 'YYYY-MM-DD HH:MM:SS[.ffffff]' and SQLite compares them as text, which  *)
(* for this fixed-width form is the order of the tick counts.  The scale   *)
(* is shrunk (two ticks a second, two seconds a day) to keep 36500 days    *)
(* within TLC's integers.                                                  *)
(***************************************************************************)
Second == 2
Day == 4

\* Bounds of the model.
MaxNow == 125
MaxIdeas == 2
MaxDeleted == 1
MaxOpened == 1
MaxPayments == 1
MaxStaged == 1
MaxChecks == 2
MaxConnections == 1

Users == {1, 2}
BotId == 0                      \* callback.message.from_user is the bot itself
StartNow == 2 * Second
TzOffsets == {0 - Second, 0, Second}   \* local time minus UTC, whole seconds
ClockSteps == {0, 30 * Day}

NULL == 0 - 1                   \* SQL NULL / Python None in a timestamp column
NoCity == ""                    \* users.city IS NULL
NoWeather == ""                 \* get_weather returned None

FREE_LIMIT == 50

VARIABLES
    now,            \* the server's local clock, in ticks
    tz,             \* local time minus UTC, fixed by the deployment
    users,          \* table users: user_id -> row
    ideas,          \* table ideas: id -> row
    idea_seq,       \* sqlite_sequence of ideas (AUTOINCREMENT)
    deleted_ideas,  \* table deleted_ideas: number of rows per user_id
    payments,       \* table payments: payment_id -> row
    gateway,        \* the payment processor's own status of each payment
    temp_ideas,     \* table temp_ideas: sequence of rows, in insertion order
    temp_photos,    \* table temp_photos
    temp_voice,     \* table temp_voice
    fsm,            \* MemoryStorage: FSM state of each user
    buttons,        \* callback buttons the bot has sent to each user
    checks,         \* check_payment_status handlers waiting for the gateway
    WHISPER_AVAILABLE, \* whether faster_whisper could be imported
    WHISPER_MODEL,  \* the global Whisper model: "None" until it is loaded
    connections,    \* sqlite3 connections opened and not closed by the code
    tasks,          \* handle_text coroutines suspended at an await
    reply           \* what the last handler did: its name, user and answer

vars == <<now, tz, users, ideas, idea_seq, deleted_ideas, payments, gateway,
          temp_ideas, temp_photos, temp_voice, fsm, buttons, checks,
          WHISPER_AVAILABLE, WHISPER_MODEL, connections, tasks, reply>>

db == <<users, ideas, idea_seq, deleted_ideas, payments,
        temp_ideas, temp_photos, temp_voice>>

whisper == <<WHISPER_AVAILABLE, WHISPER_MODEL>>

Trunc(t) == t - (t % Second)
\* SQLite's datetime('now') and CURRENT_TIMESTAMP: UTC, whole seconds.
sqlite_now == Trunc(now - tz)

Min(a, b) == IF a < b THEN a ELSE b
Max(a, b) == IF a > b THEN a ELSE b

(***************************************************************************)
(* Table users.                                                            *)
(***************************************************************************)
DefaultUser ==
    [freeze_mode |-> 7, is_premium |-> 0, premium_until |-> NULL,
     ideas_count |-> 0, city |-> NoCity]

\* get_user without the expiry check.
get_user_db_noexpiry(us, u, t) ==
    IF u \in DOMAIN us THEN us ELSE us @@ (u :> DefaultUser)

\* get_user: the table after the call (the row is inserted when missing and
\* an expired premium is cleared).
get_user_db(us, u, t) ==
    LET a == IF u \in DOMAIN us THEN us ELSE us @@ (u :> DefaultUser)
    IN  IF a[u].is_premium = 1 /\ a[u].premium_until # NULL
           /\ a[u].premium_until < t
        THEN [a EXCEPT ![u].is_premium = 0]
        ELSE a

\* get_user: the row it returns.
get_user(us, u, t) == get_user_db(us, u, t)[u]

\* is_premium reading the stored flag as it is.
is_premium_stored(us, u, t) == u \in DOMAIN us /\ us[u].is_premium = 1

is_premium(us, u, t) == get_user(us, u, t).is_premium = 1

\* The plan table with a 360-day year.
PlanDays_360(plan_type) ==
    IF plan_type = "month" THEN 30
    ELSE IF plan_type = "year" THEN 360
    ELSE 36500

PlanDays(plan_type) ==
    IF plan_type = "month" THEN 30
    ELSE IF plan_type = "year" THEN 365
    ELSE 36500

\* activate_premium keeping an expiry that is later than the new one.
activate_premium_keep(us, u, plan_type, t) ==
    IF u \in DOMAIN us
    THEN [us EXCEPT ![u].is_premium = 1,
                    ![u].premium_until =
                        IF @ # NULL /\ @ > t + PlanDays(plan_type) * Day THEN @
                        ELSE t + PlanDays(plan_type) * Day]
    ELSE us

activate_premium(us, u, plan_type, t) ==
    IF u \in DOMAIN us
    THEN [us EXCEPT ![u].is_premium = 1,
                    ![u].premium_until = t + PlanDays(plan_type) * Day]
    ELSE us

(***************************************************************************)
(* Text.  A string is a sequence of characters.                            *)
(***************************************************************************)
Str_ab == <<"a", "b">>
Str_Abc == <<"A", "b", "c">>
Str_xy == <<"x", "y">>
VoicePlaceholder == <<"[", "v", "]">>      \* "[Голосовая заметка]"
PhotoPlaceholder == <<"[", "p", "]">>      \* "[Фото без описания]"
NoText == <<>>                             \* None: no caption, no transcription

Str_p10 == <<"a", "b", "c", "d", "e", "f", "g", "h", "i", "j">>
Str_q10 == <<"a", "b", "c", "d", "e", "f", "g", "x", "y", "z">>
Str_xAb == <<"x", "A", "b">>
\* 90 characters, one "q" in the middle
Str_long == [k \in 1 .. 90 |-> IF k = 45 THEN "q" ELSE "z"]
SearchTexts == {Str_xAb, Str_xy, Str_long}

Texts == {Str_ab, Str_Abc, Str_xy}
Captions == {NoText, Str_ab}
Transcriptions == {NoText, Str_ab}

\* str.lower()
LowerChar(c) ==
    IF c = "A" THEN "a" ELSE IF c = "B" THEN "b" ELSE IF c = "C" THEN "c" ELSE c
Lower(s) == [i \in 1 .. Len(s) |-> LowerChar(s[i])]

(***************************************************************************)
(* difflib.SequenceMatcher(None, a, b).ratio() without junk: the longest   *)
(* matching block (earliest in a, then earliest in b, among the longest),  *)
(* then the same to its left and to its right; ratio = 2 * matches / total.*)
(* Positions are 1-based, ranges are lo .. hi inclusive.                   *)
(***************************************************************************)
RECURSIVE RunLen(_, _, _, _, _, _)
RunLen(a, b, i, j, ahi, bhi) ==
    IF i > ahi \/ j > bhi \/ a[i] # b[j] THEN 0
    ELSE 1 + RunLen(a, b, i + 1, j + 1, ahi, bhi)

find_longest_match(a, b, alo, ahi, blo, bhi) ==
    LET P == {<<i, j>> : i \in alo .. ahi, j \in blo .. bhi}
        run == [p \in P |-> RunLen(a, b, p[1], p[2], ahi, bhi)]
        best == IF P = {} THEN 0
                ELSE CHOOSE k \in {run[p] : p \in P} : \A p \in P : run[p] <= k
    IN  IF best = 0 THEN <<alo, blo, 0>>
        ELSE LET B == {p \in P : run[p] = best}
                 i == CHOOSE x \in {p[1] : p \in B} : \A p \in B : p[1] >= x
                 j == CHOOSE y \in {p[2] : p \in {q \in B : q[1] = i}} :
                        \A p \in B : p[1] = i => p[2] >= y
             IN  <<i, j, best>>

RECURSIVE Matches(_, _, _, _, _, _)
Matches(a, b, alo, ahi, blo, bhi) ==
    IF alo > ahi \/ blo > bhi THEN 0
    ELSE LET m == find_longest_match(a, b, alo, ahi, blo, bhi)
         IN  IF m[3] = 0 THEN 0
             ELSE m[3]
                  + Matches(a, b, alo, m[1] - 1, blo, m[2] - 1)
                  + Matches(a, b, m[1] + m[3], ahi, m[2] + m[3], bhi)

\* ratio(): 2.0 * matches / length as the fraction <<2 * matches, length>>,
\* 1.0 when both strings are empty.
ratio(a, b) ==
    LET M == Matches(a, b, 1, Len(a), 1, Len(b))
        T == Len(a) + Len(b)
    IN  IF T = 0 THEN <<1, 1>> ELSE <<2 * M, T>>

\* ratio() >= 0.7
RatioAbove07_atleast(a, b) ==
    LET M == Matches(a, b, 1, Len(a), 1, Len(b))
        T == Len(a) + Len(b)
    IN  IF T = 0 THEN TRUE ELSE 20 * M >= 7 * T

\* ratio() > 0.7, in integers: 2 * M / T > 7 / 10.
RatioAbove07(a, b) ==
    LET M == Matches(a, b, 1, Len(a), 1, Len(b))
        T == Len(a) + Len(b)
    IN  IF T = 0 THEN TRUE ELSE 20 * M > 7 * T

\* The contents the model sends, and for every pair of them whether
\* SequenceMatcher(None, new.lower(), old.lower()).ratio() > 0.7.
Contents ==
    Texts \cup SearchTexts \cup {Str_p10, Str_q10} \cup Captions \cup Transcriptions \cup {VoicePlaceholder, PhotoPlaceholder}
Similar ==
    [new \in Contents, old \in Contents |-> RatioAbove07(Lower(new), Lower(old))]

SimWindow == 50                 \* LIMIT 50

\* The loop of check_similarity over the fetched rows (ids, most recent
\* first): the first row that is similar enough, 0 for None.
RECURSIVE check_similarity(_, _, _)
check_similarity(ids, rows, new_content) ==
    IF rows = <<>> THEN 0
    ELSE LET old_content == ids[Head(rows)].content
         IN  IF old_content # NoText /\ new_content # NoText
                /\ Similar[new_content, old_content]
             THEN Head(rows)
             ELSE check_similarity(ids, Tail(rows), new_content)

(***************************************************************************)
(* Table ideas and its queries.                                            *)
(***************************************************************************)
IdsOf(ids, u) == {i \in DOMAIN ids : ids[i].user_id = u}

\* ORDER BY created_at DESC: every order SQLite may return (rows with equal
\* created_at come in no specified order): any of the newest rows first,
\* then the others in the same way.
RECURSIVE ByCreatedDesc(_, _)
ByCreatedDesc(ids, S) ==
    IF S = {} THEN {<<>>}
    ELSE LET newest == {i \in S : \A j \in S : ids[i].created_at >= ids[j].created_at}
         IN  UNION {{<<x>> \o p : p \in ByCreatedDesc(ids, S \ {x})} : x \in newest}

\* The query of check_similarity returning no row.
RecentRows_none(ids, u) == {<<>>}

\* SELECT ... FROM ideas WHERE user_id = ? ORDER BY created_at DESC LIMIT 50
RecentRows(ids, u) ==
    {SubSeq(p, 1, Min(Len(p), SimWindow)) : p \in ByCreatedDesc(ids, IdsOf(ids, u))}

\* WHERE user_id = ? AND frozen_until <= datetime('now')
get_thawed_ideas(u) ==
    {i \in IdsOf(ideas, u) : ideas[i].frozen_until <= sqlite_now}

\* WHERE user_id = ? AND created_at <= cutoff, cutoff = datetime.now() - 30 days
get_old_ideas(u) ==
    {i \in IdsOf(ideas, u) : ideas[i].created_at <= now - 30 * Day}

\* now.strftime("%A"), now.strftime("%H:%M") and strftime("%d.%m.%Y") of a
\* local time.  Day 0 is a Thursday; the clock of the scaled day has one
\* reading per second; a date is its day number.
WeekDays ==
    <<"Thursday", "Friday", "Saturday", "Sunday", "Monday", "Tuesday", "Wednesday">>
strftime_A(t) == WeekDays[((t \div Day) % 7) + 1]
ClockReadings == <<"00:00", "12:00">>
strftime_HM(t) == ClockReadings[((t % Day) \div Second) + 1]
strftime_date(t) == t \div Day

\* save_idea without the UPDATE of ideas_count.
save_idea_nocount(us, ids, seq, u, content, idea_type, weather) ==
    LET us1 == get_user_db(us, u, now)
        row == [user_id |-> u, content |-> content, idea_type |-> idea_type,
                frozen_until |-> now + us1[u].freeze_mode * Day,
                created_at |-> sqlite_now,
                opened_count |-> 0, is_valuable |-> 0,
                day_of_week |-> strftime_A(now), time_of_day |-> strftime_HM(now),
                weather |-> weather]
    IN  [users |-> us1, ideas |-> ids @@ ((seq + 1) :> row), idea_seq |-> seq + 1]

\* save_idea subtracting the freeze days.
save_idea_back(us, ids, seq, u, content, idea_type, weather) ==
    LET us1 == get_user_db(us, u, now)
        row == [user_id |-> u, content |-> content, idea_type |-> idea_type,
                frozen_until |-> now - us1[u].freeze_mode * Day,
                created_at |-> sqlite_now,
                opened_count |-> 0, is_valuable |-> 0,
                day_of_week |-> strftime_A(now), time_of_day |-> strftime_HM(now),
                weather |-> weather]
    IN  [users |-> [us1 EXCEPT ![u].ideas_count = @ + 1],
         ideas |-> ids @@ ((seq + 1) :> row), idea_seq |-> seq + 1]

\* save_idea: the users table, the ideas table and the sequence after it.
save_idea(us, ids, seq, u, content, idea_type, weather) ==
    LET us1 == get_user_db(us, u, now)
        freeze_days == us1[u].freeze_mode
        row == [user_id |-> u, content |-> content, idea_type |-> idea_type,
                frozen_until |-> now + freeze_days * Day,
                created_at |-> sqlite_now,
                opened_count |-> 0, is_valuable |-> 0,
                day_of_week |-> strftime_A(now), time_of_day |-> strftime_HM(now),
                weather |-> weather]
    IN  [users |-> [us1 EXCEPT ![u].ideas_count = @ + 1],
         ideas |-> ids @@ ((seq + 1) :> row),
         idea_seq |-> seq + 1]

\* get_weather(city): None without a city or when the lookup fails.
Weathers(city) == IF city = NoCity THEN {NoWeather} ELSE {NoWeather, "sun"}

\* Room for one more row in ideas (bound of the model).
RoomForIdea == Cardinality(DOMAIN ideas) < MaxIdeas

\* The newest staged row of a user: ORDER BY timestamp DESC LIMIT 1, any of
\* the rows with the greatest timestamp; {} when the user has none.
LatestStaged(tbl, u) ==
    {k \in 1 .. Len(tbl) :
        /\ tbl[k].user_id = u
        /\ \A m \in 1 .. Len(tbl) :
              tbl[m].user_id = u => tbl[m].timestamp <= tbl[k].timestamp}

RECURSIVE DeleteStaged(_, _)
DeleteStaged(tbl, u) ==
    IF tbl = <<>> THEN <<>>
    ELSE IF Head(tbl).user_id = u THEN DeleteStaged(Tail(tbl), u)
    ELSE <<Head(tbl)>> \o DeleteStaged(Tail(tbl), u)

Staged(u, content, weather) ==
    [user_id |-> u, content |-> content, weather |-> weather,
     timestamp |-> sqlite_now]

(***************************************************************************)
(* Export.  A fetched row is a tuple; the columns after the third are kept *)
(* as Python values (an int or a str), because export_to_markdown reads    *)
(* them by position whatever the query selected.                           *)
(***************************************************************************)
PyInt(n) == [t |-> "int", v |-> n]
PyStr(x) == [t |-> "str", v |-> x]
\* bool(x)
Truthy(x) == IF x.t = "int" THEN x.v # 0 ELSE x.v # ""

\* SELECT content, idea_type, created_at, is_valuable, day_of_week,
\* time_of_day ... WHERE user_id = ? ORDER BY created_at DESC
AllRow(r) ==
    <<r.content, r.idea_type, r.created_at,
      PyInt(r.is_valuable), PyStr(r.day_of_week), PyStr(r.time_of_day)>>
get_all_ideas_for_export(ids, u) ==
    {[k \in 1 .. Len(p) |-> AllRow(ids[p[k]])] :
        p \in ByCreatedDesc(ids, IdsOf(ids, u))}

\* SELECT content, idea_type, created_at, day_of_week, time_of_day ...
\* WHERE user_id = ? AND is_valuable = 1 ORDER BY created_at DESC
ValuableRow(r) ==
    <<r.content, r.idea_type, r.created_at,
      PyStr(r.day_of_week), PyStr(r.time_of_day)>>
get_valuable_ideas_for_export(ids, u) ==
    {[k \in 1 .. Len(p) |-> ValuableRow(ids[p[k]])] :
        p \in ByCreatedDesc(ids, {i \in IdsOf(ids, u) : ids[i].is_valuable = 1})}

\* One pass of the loop of export_to_markdown: the section of a row.  star:
\* the valuable mark is printed; heading: the voice placeholder or the
\* date; context: the two parts of the context line, <<>> for no line;
\* body: the content printed, NoText for none.
Section(row) ==
    LET content == row[1]
        idea_type == row[2]
        created_at == row[3]
        rest == SubSeq(row, 4, Len(row))
        is_valuable == IF Len(rest) > 0 THEN rest[1] ELSE PyInt(0)
        dow == IF Len(rest) > 1 THEN rest[2] ELSE PyStr("")
        tod == IF Len(rest) > 2 THEN rest[3] ELSE PyStr("")
    IN  [star |-> Truthy(is_valuable),
         heading |-> IF idea_type = "voice" THEN <<"voice">>
                     ELSE <<"date", strftime_date(created_at)>>,
         context |-> IF Truthy(dow) THEN <<dow.v, tod.v>> ELSE <<>>,
         body |-> IF content # NoText /\ idea_type # "voice" THEN content ELSE NoText]

\* export_to_markdown writing the sections last row first.
export_to_markdown_reversed(rows, title) ==
    [title |-> title,
     exported |-> <<strftime_date(now), strftime_HM(now)>>,
     sections |-> [k \in 1 .. Len(rows) |-> Section(rows[Len(rows) + 1 - k])]]

\* The document: the header (title, time of export) and one section per
\* row, in the order of the rows.
export_to_markdown(rows, title) ==
    [title |-> title,
     exported |-> <<strftime_date(now), strftime_HM(now)>>,
     sections |-> [k \in 1 .. Len(rows) |-> Section(rows[k])]]

(***************************************************************************)
(* Search.  Positions are Python's: 0-based, slices half-open.             *)
(***************************************************************************)
PreviewWindow == 40             \* characters of context on each side
PlainPreview == 80              \* content[:80] when the query is not found
SpoilerAbove == 100             \* the full text follows a longer content
SearchLimit == 20               \* LIMIT 20

\* s[a:b] for 0 <= a, 0 <= b
Slice(s, a, b) ==
    LET lo == Min(a, Len(s))
        hi == Min(b, Len(s))
    IN  IF lo >= hi THEN <<>> ELSE SubSeq(s, lo + 1, hi)

\* str.find: the lowest index where sub starts, -1 when it does not occur
find(s, sub) ==
    LET P == {k \in 0 .. (Len(s) - Len(sub)) : Slice(s, k, k + Len(sub)) = sub}
    IN  IF P = {} THEN 0 - 1 ELSE CHOOSE k \in P : \A m \in P : k <= m

\* str.strip() of blanks
strip(s) ==
    LET N == {k \in 1 .. Len(s) : s[k] # " "}
    IN  IF N = {} THEN <<>>
        ELSE SubSeq(s, CHOOSE k \in N : \A m \in N : k <= m,
                       CHOOSE k \in N : \A m \in N : k >= m)

\* content LIKE '%query%' for a query without the wildcards % and _ :
\* the query occurs in the content, letters compared without case.
Like(content, query) == find(Lower(content), Lower(query)) # 0 - 1

\* SELECT id, content, created_at, is_valuable FROM ideas WHERE user_id = ?
\* AND content LIKE ? ORDER BY created_at DESC LIMIT 20
SearchRows(ids, u, query) ==
    {SubSeq(p, 1, Min(Len(p), SearchLimit)) :
        p \in ByCreatedDesc(ids, {i \in IdsOf(ids, u) : Like(ids[i].content, query)})}

\* The preview of one result as the two handlers build it.  lead, trail:
\* the ellipsis before and after; found: the query was located in the
\* content (otherwise before is the plain head of the content).
cmd_find_preview(content, query) ==
    LET pos == find(Lower(content), Lower(query))
        context_start == Max(0, pos - PreviewWindow)
        context_end == Min(Len(content), pos + Len(query) + PreviewWindow)
    IN  IF pos # 0 - 1
        THEN [found |-> TRUE,
              before |-> Slice(content, context_start, pos),
              match |-> Slice(content, pos, pos + Len(query)),
              after |-> Slice(content, context_end - (pos + Len(query)), context_end),
              lead |-> context_start > 0,
              trail |-> context_end < Len(content),
              full_text |-> Len(content) > SpoilerAbove]
        ELSE [found |-> FALSE,
              before |-> Slice(content, 0, PlainPreview),
              match |-> <<>>, after |-> <<>>, lead |-> FALSE,
              trail |-> Len(content) > PlainPreview,
              full_text |-> Len(content) > PlainPreview]

process_search_query_preview(content, query) ==
    LET pos == find(Lower(content), Lower(query))
        context_start == Max(0, pos - PreviewWindow)
        context_end == Min(Len(content), pos + Len(query) + PreviewWindow)
    IN  IF pos # 0 - 1
        THEN [found |-> TRUE,
              before |-> Slice(content, context_start, pos),
              match |-> Slice(content, pos, pos + Len(query)),
              after |-> Slice(content, pos + Len(query), context_end),
              lead |-> context_start > 0,
              trail |-> context_end < Len(content),
              full_text |-> Len(content) > SpoilerAbove]
        ELSE [found |-> FALSE,
              before |-> Slice(content, 0, PlainPreview),
              match |-> <<>>, after |-> <<>>, lead |-> FALSE,
              trail |-> Len(content) > PlainPreview,
              full_text |-> Len(content) > PlainPreview]

\* One message of the result list.
Hit(ids, i, preview) ==
    [id |-> i, star |-> ids[i].is_valuable # 0,
     date |-> strftime_date(ids[i].created_at), preview |-> preview]

(***************************************************************************)
(* Answers and buttons.                                                    *)
(***************************************************************************)
NoRow == <<>>

NoOut == <<>>

\* op: the handler; kind: its answer; arg: the note, payment, user or number
\* the answer is about; row: what get_user returned to it; text: the
\* content it was given; out: what it computed and showed.
Answer(op, u, kind, arg, row, text, out) ==
    [op |-> op, user |-> u, kind |-> kind, arg |-> arg, row |-> row,
     text |-> text, out |-> out]
ReplyText(op, u, kind, arg, row, text) == Answer(op, u, kind, arg, row, text, NoOut)
ReplyOut(op, u, kind, arg, row, out) == Answer(op, u, kind, arg, row, NoText, out)
Reply(op, u, kind, arg, row) == ReplyText(op, u, kind, arg, row, NoText)

Btn(kind, n) == <<kind, n>>
HasBtn(u, kind, n) == Btn(kind, n) \in buttons[u]
AddBtns(u, bs) == [buttons EXCEPT ![u] = @ \cup bs]

\* available: the outcomes of importing faster_whisper in the deployments
\* considered.
InitWith(zones, available) ==
    /\ now = StartNow
    /\ tz \in zones
    /\ WHISPER_AVAILABLE \in available
    /\ WHISPER_MODEL = "None"
    /\ connections = 0
    /\ tasks = <<>>
    /\ users = <<>>
    /\ ideas = <<>>
    /\ idea_seq = 0
    /\ deleted_ideas = [u \in Users |-> 0]
    /\ payments = <<>>
    /\ gateway = <<>>
    /\ temp_ideas = <<>>
    /\ temp_photos = <<>>
    /\ temp_voice = <<>>
    /\ fsm = [u \in Users |-> "none"]
    /\ buttons = [u \in Users |-> {}]
    /\ checks = <<>>
    /\ reply = Reply("init", 0, "", 0, NoRow)

InitAt(zones) == InitWith(zones, {TRUE})

Init == InitWith(TzOffsets, BOOLEAN)

\* Time passes: by whole seconds, ending at any sub-second fraction.
AdvanceBy(steps) ==
    \E d \in steps, f \in 0 .. (Second - 1) :
        /\ Trunc(now) + d + f > now
        /\ d = 0 \/ checks = <<>>      \* a handler waits minutes, not days
        /\ Trunc(now) + d + f <= MaxNow
        /\ now' = Trunc(now) + d + f
        /\ reply' = Reply("clock", 0, "", 0, NoRow)
        /\ UNCHANGED <<tz, whisper, connections, tasks, db, gateway, fsm, buttons, checks>>

AdvanceClock == AdvanceBy(ClockSteps)

cmd_start(u) ==
    /\ users' = get_user_db(users, u, now)
    /\ reply' = Reply("cmd_start", u, "welcome", 0, <<get_user(users, u, now)>>)
    /\ UNCHANGED <<now, tz, whisper, connections, tasks, ideas, idea_seq, deleted_ideas, payments, gateway,
                   temp_ideas, temp_photos, temp_voice, fsm, buttons, checks>>

(***************************************************************************)
(* Inbound content: text, photo, voice.                                    *)
(***************************************************************************)
ThawPreview == 10               \* ideas[:10]
DumpPreview == 15               \* ideas[:15]

\* max: the rows of temp_ideas the model follows.
handle_text_upto(u, text, max) ==
    /\ fsm[u] = "none"
    /\ LET user == get_user(users, u, now)
           us1 == get_user_db(users, u, now)
       IN  IF user.is_premium = 0 /\ user.ideas_count >= FREE_LIMIT
           THEN /\ users' = us1
                /\ reply' = ReplyText("handle_text", u, "limit", 0, <<user>>, text)
                /\ UNCHANGED <<ideas, idea_seq, temp_ideas, buttons>>
           ELSE \E weather \in Weathers(user.city), rows \in RecentRows(ideas, u) :
                  LET similar == check_similarity(ideas, rows, text)
                  IN  IF similar # 0
                      THEN /\ Len(temp_ideas) < max
                           /\ users' = us1
                           /\ temp_ideas' = Append(temp_ideas, Staged(u, text, weather))
                           /\ buttons' = AddBtns(u, {Btn("save_new_text", 0),
                                                     Btn("open", similar)})
                           /\ reply' = ReplyText("handle_text", u, "duplicate", similar, <<user>>, text)
                           /\ UNCHANGED <<ideas, idea_seq>>
                      ELSE /\ RoomForIdea
                           /\ LET r == save_idea(us1, ideas, idea_seq, u, text, "text", weather)
                              IN  /\ users' = r.users
                                  /\ ideas' = r.ideas
                                  /\ idea_seq' = r.idea_seq
                           /\ reply' = ReplyText("handle_text", u, "saved", idea_seq + 1, <<user>>, text)
                           /\ UNCHANGED <<temp_ideas, buttons>>
    /\ UNCHANGED <<now, tz, whisper, connections, tasks, deleted_ideas, payments, gateway, temp_photos,
                   temp_voice, fsm, checks>>

handle_text(u, text) == handle_text_upto(u, text, MaxStaged)

\* handle_text as a coroutine.  It can be suspended where it awaits:
\* at state.get_state(), once the stored state has been read, and at
\* get_weather(city) when the user has a city.  Between two awaits it runs
\* without a step of any other handler.
MaxTasks == 2
Task(u, text, stage, user) == [user_id |-> u, text |-> text, stage |-> stage, user |-> user]
Without(seq, k) == SubSeq(seq, 1, k - 1) \o SubSeq(seq, k + 1, Len(seq))

\* From check_similarity to the end of the handler.
handle_text_rest(u, text, user, weather) ==
    \E rows \in RecentRows(ideas, u) :
      LET similar == check_similarity(ideas, rows, text)
      IN  IF similar # 0
          THEN /\ Len(temp_ideas) < MaxStaged
               /\ users' = users
               /\ temp_ideas' = Append(temp_ideas, Staged(u, text, weather))
               /\ buttons' = AddBtns(u, {Btn("save_new_text", 0), Btn("open", similar)})
               /\ reply' = ReplyText("handle_text", u, "duplicate", similar, <<user>>, text)
               /\ UNCHANGED <<ideas, idea_seq>>
          ELSE /\ RoomForIdea
               /\ LET r == save_idea(users, ideas, idea_seq, u, text, "text", weather)
                  IN  /\ users' = r.users
                      /\ ideas' = r.ideas
                      /\ idea_seq' = r.idea_seq
               /\ reply' = ReplyText("handle_text", u, "saved", idea_seq + 1, <<user>>, text)
               /\ UNCHANGED <<temp_ideas, buttons>>

\* The message arrives: the handler reads the stored state and awaits.
handle_text_get_state(u, text) ==
    /\ fsm[u] = "none"
    /\ Len(tasks) < MaxTasks
    /\ tasks' = Append(tasks, Task(u, text, "get_state", NoRow))
    /\ reply' = ReplyText("handle_text_await", u, "get_state", 0, NoRow, text)
    /\ UNCHANGED <<now, tz, whisper, connections, db, gateway, fsm, buttons, checks>>

\* Resumed after get_state: get_user, the free limit, and either the await
\* of the weather or, without a city, the rest of the handler.
handle_text_get_user(k) ==
    /\ k \in 1 .. Len(tasks)
    /\ tasks[k].stage = "get_state"
    /\ LET u == tasks[k].user_id
           text == tasks[k].text
           user == get_user(users, u, now)
           us1 == get_user_db(users, u, now)
       IN  IF user.is_premium = 0 /\ user.ideas_count >= FREE_LIMIT
           THEN /\ users' = us1
                /\ tasks' = Without(tasks, k)
                /\ reply' = ReplyText("handle_text", u, "limit", 0, <<user>>, text)
                /\ UNCHANGED <<ideas, idea_seq, temp_ideas, buttons>>
           ELSE IF user.city # NoCity
           THEN /\ users' = us1
                /\ tasks' = [tasks EXCEPT ![k] = Task(u, text, "get_weather", <<user>>)]
                /\ reply' = ReplyText("handle_text_await", u, "get_weather", 0, <<user>>, text)
                /\ UNCHANGED <<ideas, idea_seq, temp_ideas, buttons>>
           ELSE /\ tasks' = Without(tasks, k)
                /\ \E rows \in RecentRows(ideas, u) :
                      LET similar == check_similarity(ideas, rows, text)
                      IN  IF similar # 0
                          THEN /\ Len(temp_ideas) < MaxStaged
                               /\ users' = us1
                               /\ temp_ideas' = Append(temp_ideas, Staged(u, text, NoWeather))
                               /\ buttons' = AddBtns(u, {Btn("save_new_text", 0),
                                                         Btn("open", similar)})
                               /\ reply' = ReplyText("handle_text", u, "duplicate", similar, <<user>>, text)
                               /\ UNCHANGED <<ideas, idea_seq>>
                          ELSE /\ RoomForIdea
                               /\ LET r == save_idea(us1, ideas, idea_seq, u, text, "text", NoWeather)
                                  IN  /\ users' = r.users
                                      /\ ideas' = r.ideas
                                      /\ idea_seq' = r.idea_seq
                               /\ reply' = ReplyText("handle_text", u, "saved", idea_seq + 1, <<user>>, text)
                               /\ UNCHANGED <<temp_ideas, buttons>>
    /\ UNCHANGED <<now, tz, whisper, connections, deleted_ideas, payments, gateway,
                   temp_photos, temp_voice, fsm, checks>>

\* Resumed after get_weather: check_similarity and save_idea, or the prompt.
handle_text_get_weather(k) ==
    /\ k \in 1 .. Len(tasks)
    /\ tasks[k].stage = "get_weather"
    /\ tasks' = Without(tasks, k)
    /\ \E weather \in Weathers(tasks[k].user[1].city) :
          handle_text_rest(tasks[k].user_id, tasks[k].text, tasks[k].user[1], weather)
    /\ UNCHANGED <<now, tz, whisper, connections, deleted_ideas, payments, gateway,
                   temp_photos, temp_voice, fsm, checks>>

save_new_text(u) ==
    /\ HasBtn(u, "save_new_text", 0)
    /\ IF LatestStaged(temp_ideas, u) = {}
       THEN /\ reply' = Reply("save_new_text", u, "nothing", 0, NoRow)
            /\ UNCHANGED <<users, ideas, idea_seq, temp_ideas>>
       ELSE \E k \in LatestStaged(temp_ideas, u) :
              /\ RoomForIdea
              /\ LET r == save_idea(users, ideas, idea_seq, u,
                                    temp_ideas[k].content, "text", temp_ideas[k].weather)
                 IN  /\ users' = r.users
                     /\ ideas' = r.ideas
                     /\ idea_seq' = r.idea_seq
              /\ temp_ideas' = DeleteStaged(temp_ideas, u)
              /\ reply' = Reply("save_new_text", u, "saved", idea_seq + 1, NoRow)
    /\ UNCHANGED <<now, tz, whisper, connections, tasks, deleted_ideas, payments, gateway, temp_photos,
                   temp_voice, fsm, buttons, checks>>

handle_photo(u, caption0) ==
    /\ fsm[u] # "waiting_for_custom_days"
    /\ LET user == get_user(users, u, now)
           us1 == get_user_db(users, u, now)
           caption == IF caption0 = NoText THEN PhotoPlaceholder ELSE caption0
       IN  IF user.is_premium = 0 /\ user.ideas_count >= FREE_LIMIT
           THEN /\ users' = us1
                /\ reply' = ReplyText("handle_photo", u, "limit", 0, <<user>>, caption)
                /\ UNCHANGED <<ideas, idea_seq, temp_photos, buttons>>
           ELSE \E weather \in Weathers(user.city), rows \in RecentRows(ideas, u) :
                  LET similar == check_similarity(ideas, rows, caption)
                  IN  IF similar # 0
                      THEN /\ Len(temp_photos) < MaxStaged
                           /\ users' = us1
                           /\ temp_photos' = Append(temp_photos, Staged(u, caption, weather))
                           /\ buttons' = AddBtns(u, {Btn("save_new_photo", 0),
                                                     Btn("open", similar)})
                           /\ reply' = ReplyText("handle_photo", u, "duplicate", similar, <<user>>, caption)
                           /\ UNCHANGED <<ideas, idea_seq>>
                      ELSE /\ RoomForIdea
                           /\ LET r == save_idea(us1, ideas, idea_seq, u, caption, "photo", weather)
                              IN  /\ users' = r.users
                                  /\ ideas' = r.ideas
                                  /\ idea_seq' = r.idea_seq
                           /\ reply' = ReplyText("handle_photo", u, "saved", idea_seq + 1, <<user>>, caption)
                           /\ UNCHANGED <<temp_photos, buttons>>
    /\ UNCHANGED <<now, tz, whisper, connections, tasks, deleted_ideas, payments, gateway, temp_ideas,
                   temp_voice, fsm, checks>>

save_new_photo(u) ==
    /\ HasBtn(u, "save_new_photo", 0)
    /\ IF LatestStaged(temp_photos, u) = {}
       THEN /\ reply' = Reply("save_new_photo", u, "nothing", 0, NoRow)
            /\ UNCHANGED <<users, ideas, idea_seq, temp_photos>>
       ELSE \E k \in LatestStaged(temp_photos, u) :
              /\ RoomForIdea
              /\ LET r == save_idea(users, ideas, idea_seq, u,
                                    temp_photos[k].content, "photo", temp_photos[k].weather)
                 IN  /\ users' = r.users
                     /\ ideas' = r.ideas
                     /\ idea_seq' = r.idea_seq
              /\ temp_photos' = DeleteStaged(temp_photos, u)
              /\ reply' = Reply("save_new_photo", u, "saved", idea_seq + 1, NoRow)
    /\ UNCHANGED <<now, tz, whisper, connections, tasks, deleted_ideas, payments, gateway, temp_ideas,
                   temp_voice, fsm, buttons, checks>>

\* transcribe_audio as handle_voice calls it, with the Whisper model loaded or
\* loadable.  transcription: what WHISPER_MODEL.transcribe yields for this
\* message (NoText: it raises or yields nothing, and transcribe_audio returns
\* None); without faster_whisper transcribe_audio returns None at once.
transcribe_audio(transcription) ==
    IF WHISPER_AVAILABLE THEN transcription ELSE NoText

handle_voice(u, heard) ==
    /\ fsm[u] # "waiting_for_custom_days"
    /\ LET user == get_user(users, u, now)
           us1 == get_user_db(users, u, now)
           transcription == transcribe_audio(heard)
           content == IF user.is_premium = 1 /\ transcription # NoText
                      THEN transcription ELSE VoicePlaceholder
       IN  IF user.is_premium = 0 /\ user.ideas_count >= FREE_LIMIT
           THEN /\ users' = us1
                /\ reply' = ReplyText("handle_voice", u, "limit", 0, <<user>>, content)
                /\ UNCHANGED <<ideas, idea_seq, temp_voice, buttons, WHISPER_MODEL>>
           ELSE \E weather \in Weathers(user.city), rows \in RecentRows(ideas, u) :
                  LET similar == IF user.is_premium = 1 /\ transcription # NoText
                                 THEN check_similarity(ideas, rows, transcription)
                                 ELSE 0
                  IN  /\ WHISPER_MODEL' = IF user.is_premium = 1 /\ WHISPER_AVAILABLE
                                          THEN "loaded" ELSE WHISPER_MODEL
                      /\ IF similar # 0
                         THEN /\ Len(temp_voice) < MaxStaged
                              /\ users' = us1
                              /\ temp_voice' = Append(temp_voice, Staged(u, content, weather))
                              /\ buttons' = AddBtns(u, {Btn("save_voice", 0),
                                                        Btn("open", similar)})
                              /\ reply' = ReplyText("handle_voice", u, "duplicate", similar, <<user>>, content)
                              /\ UNCHANGED <<ideas, idea_seq>>
                         ELSE /\ RoomForIdea
                              /\ LET r == save_idea(us1, ideas, idea_seq, u, content, "voice", weather)
                                 IN  /\ users' = r.users
                                     /\ ideas' = r.ideas
                                     /\ idea_seq' = r.idea_seq
                              /\ reply' = ReplyText("handle_voice", u, "saved", idea_seq + 1, <<user>>, content)
                              /\ UNCHANGED <<temp_voice, buttons>>
    /\ UNCHANGED <<now, tz, WHISPER_AVAILABLE, connections, tasks, deleted_ideas, payments, gateway,
                   temp_ideas, temp_photos, fsm, checks>>

\* handle_voice when WhisperModel(...) raises: the load in transcribe_audio is
\* outside its try block, so the exception leaves the handler after get_user,
\* the weather lookup and the download, before any note is written and before
\* any answer.
handle_voice_load_error(u) ==
    /\ fsm[u] # "waiting_for_custom_days"
    /\ WHISPER_AVAILABLE
    /\ WHISPER_MODEL = "None"
    /\ LET user == get_user(users, u, now)
       IN  /\ user.is_premium = 1
           /\ users' = get_user_db(users, u, now)
           /\ reply' = ReplyText("handle_voice", u, "raised", 0, <<user>>, VoicePlaceholder)
    /\ UNCHANGED <<now, tz, whisper, connections, tasks, ideas, idea_seq, deleted_ideas, payments, gateway,
                   temp_ideas, temp_photos, temp_voice, fsm, buttons, checks>>

save_voice_duplicate(u) ==
    /\ HasBtn(u, "save_voice", 0)
    /\ IF LatestStaged(temp_voice, u) = {}
       THEN /\ reply' = Reply("save_voice_duplicate", u, "nothing", 0, NoRow)
            /\ UNCHANGED <<users, ideas, idea_seq, temp_voice>>
       ELSE \E k \in LatestStaged(temp_voice, u) :
              /\ RoomForIdea
              /\ LET r == save_idea(users, ideas, idea_seq, u,
                                    temp_voice[k].content, "voice", temp_voice[k].weather)
                 IN  /\ users' = r.users
                     /\ ideas' = r.ideas
                     /\ idea_seq' = r.idea_seq
              /\ temp_voice' = DeleteStaged(temp_voice, u)
              /\ reply' = Reply("save_voice_duplicate", u, "saved", idea_seq + 1, NoRow)
    /\ UNCHANGED <<now, tz, whisper, connections, tasks, deleted_ideas, payments, gateway, temp_ideas,
                   temp_photos, fsm, buttons, checks>>

(***************************************************************************)
(* The thaw view and the bulk-cleanup view.                                *)
(***************************************************************************)
Range(q) == {q[k] : k \in 1 .. Len(q)}

\* The temperature from 2 opens on.
get_idea_temperature_from2(opened_count) ==
    IF opened_count >= 2 THEN "hot"
    ELSE IF opened_count >= 1 THEN "warm"
    ELSE "cold"

get_idea_temperature(opened_count) ==
    IF opened_count >= 3 THEN "hot"
    ELSE IF opened_count >= 1 THEN "warm"
    ELSE "cold"

\* The messages of a list, one per note shown: the note and the
\* temperature printed on it.
Cards(ids, shown) ==
    IF Len(shown) = 0 THEN NoOut
    ELSE [k \in 1 .. Len(shown) |->
            [id |-> shown[k], temp |-> get_idea_temperature(ids[shown[k]].opened_count)]]

cmd_thaw(u) ==
    /\ fsm[u] # "waiting_for_custom_days"
    /\ \E p \in ByCreatedDesc(ideas, get_thawed_ideas(u)) :
          LET first == SubSeq(p, 1, Min(Len(p), ThawPreview))
              shown == Range(first)
          IN  /\ buttons' = AddBtns(u, {Btn("thaw", i) : i \in shown})
              /\ reply' = ReplyOut("cmd_thaw", u, "list", Len(p), NoRow,
                                   Cards(ideas, first))
    /\ UNCHANGED <<now, tz, whisper, connections, tasks, db, gateway, fsm, checks>>

\* An UPDATE that counts the view twice.
count_open_twice(ids, i) == [ids EXCEPT ![i].opened_count = @ + 2]

\* UPDATE ideas SET opened_count = opened_count + 1 WHERE id = ?
count_open(ids, i) == [ids EXCEPT ![i].opened_count = @ + 1]

\* max: the views of one note the model follows.  The handler returns from
\* its not-found branch without conn.close().
open_idea_upto(u, i, max) ==
    /\ HasBtn(u, "thaw", i) \/ HasBtn(u, "open", i)
    /\ IF i \in DOMAIN ideas
       THEN /\ ideas[i].opened_count < max
            /\ ideas' = count_open(ideas, i)
            /\ reply' = Reply("open_idea", u, "opened", i, NoRow)
            /\ UNCHANGED connections
       ELSE /\ connections < MaxConnections
            /\ connections' = connections + 1
            /\ reply' = Reply("open_idea", u, "not_found", i, NoRow)
            /\ UNCHANGED ideas
    /\ UNCHANGED <<now, tz, whisper, tasks, users, idea_seq, deleted_ideas, payments, gateway,
                   temp_ideas, temp_photos, temp_voice, fsm, buttons, checks>>

\* The interpreter finalises the connection objects that no frame refers
\* to any more, which closes them.
finalize_connections ==
    /\ connections > 0
    /\ connections' = 0
    /\ reply' = Reply("finalize_connections", 0, "", 0, NoRow)
    /\ UNCHANGED <<now, tz, whisper, tasks, db, gateway, fsm, buttons, checks>>

open_idea(u, i) == open_idea_upto(u, i, MaxOpened)

\* A DELETE that takes the user's other notes with it.
delete_row_all(ids, i) ==
    IF i \in DOMAIN ids
    THEN [k \in {j \in DOMAIN ids : ids[j].user_id # ids[i].user_id} |-> ids[k]]
    ELSE ids

\* INSERT INTO deleted_ideas (user_id); DELETE FROM ideas WHERE id = ?
delete_row(ids, i) == [k \in DOMAIN ids \ {i} |-> ids[k]]

\* max: the rows of deleted_ideas per user the model follows.
delete_idea_upto(u, i, max) ==
    /\ HasBtn(u, "thaw", i)
    /\ deleted_ideas[u] < max
    /\ deleted_ideas' = [deleted_ideas EXCEPT ![u] = @ + 1]
    /\ ideas' = delete_row(ideas, i)
    /\ reply' = Reply("delete_idea", u, "deleted", i, NoRow)
    /\ UNCHANGED <<now, tz, whisper, connections, tasks, users, idea_seq, payments, gateway,
                   temp_ideas, temp_photos, temp_voice, fsm, buttons, checks>>

delete_idea(u, i) == delete_idea_upto(u, i, MaxDeleted)

\* UPDATE ideas SET frozen_until = now + days WHERE id = ?
set_frozen(ids, i, days) ==
    IF i \in DOMAIN ids THEN [ids EXCEPT ![i].frozen_until = now + days * Day] ELSE ids

refreeze_idea(u, i) ==
    /\ HasBtn(u, "thaw", i)
    /\ ideas' = set_frozen(ideas, i, 30)
    /\ reply' = Reply("refreeze_idea", u, "frozen", i, NoRow)
    /\ UNCHANGED <<now, tz, whisper, connections, tasks, users, idea_seq, deleted_ideas, payments, gateway,
                   temp_ideas, temp_photos, temp_voice, fsm, buttons, checks>>

\* ORDER BY created_at ASC: the reverse of a descending order.
Reverse(q) == [k \in 1 .. Len(q) |-> q[Len(q) + 1 - k]]

cmd_dump(u) ==
    /\ fsm[u] # "waiting_for_custom_days"
    /\ \E p \in ByCreatedDesc(ideas, get_old_ideas(u)) :
          LET asc == Reverse(p)
              first == SubSeq(asc, 1, Min(Len(asc), DumpPreview))
              shown == Range(first)
          IN  /\ buttons' = AddBtns(u, {Btn("dump", i) : i \in shown})
              /\ reply' = ReplyOut("cmd_dump", u, "list", Len(p), NoRow,
                                   Cards(ideas, first))
    /\ UNCHANGED <<now, tz, whisper, connections, tasks, db, gateway, fsm, checks>>

dump_delete(u, i) ==
    /\ HasBtn(u, "dump", i)
    /\ deleted_ideas[u] < MaxDeleted
    /\ deleted_ideas' = [deleted_ideas EXCEPT ![u] = @ + 1]
    /\ ideas' = delete_row(ideas, i)
    /\ reply' = Reply("dump_delete", u, "deleted", i, NoRow)
    /\ UNCHANGED <<now, tz, whisper, connections, tasks, users, idea_seq, payments, gateway,
                   temp_ideas, temp_photos, temp_voice, fsm, buttons, checks>>

dump_valuable(u, i) ==
    /\ HasBtn(u, "dump", i)
    /\ ideas' = IF i \in DOMAIN ideas THEN [ideas EXCEPT ![i].is_valuable = 1] ELSE ideas
    /\ reply' = Reply("dump_valuable", u, "valuable", i, NoRow)
    /\ UNCHANGED <<now, tz, whisper, connections, tasks, users, idea_seq, deleted_ideas, payments, gateway,
                   temp_ideas, temp_photos, temp_voice, fsm, buttons, checks>>

dump_freeze(u, i) ==
    /\ HasBtn(u, "dump", i)
    /\ ideas' = set_frozen(ideas, i, 90)
    /\ reply' = Reply("dump_freeze", u, "frozen", i, NoRow)
    /\ UNCHANGED <<now, tz, whisper, connections, tasks, users, idea_seq, deleted_ideas, payments, gateway,
                   temp_ideas, temp_photos, temp_voice, fsm, buttons, checks>>

(***************************************************************************)
(* Statistics.                                                             *)
(***************************************************************************)
\* get_stats with every note counted as valuable.
get_stats_allvaluable(u) ==
    [total |-> users[u].ideas_count,
     alive |-> Cardinality(IdsOf(ideas, u)),
     deleted |-> deleted_ideas[u],
     valuable |-> Cardinality(IdsOf(ideas, u))]

\* get_stats for a user who has a row in users.
get_stats(u) ==
    [total |-> users[u].ideas_count,
     alive |-> Cardinality(IdsOf(ideas, u)),
     deleted |-> deleted_ideas[u],
     valuable |-> Cardinality({i \in IdsOf(ideas, u) : ideas[i].is_valuable = 1})]

\* int(alive / max(total, 1) * 100); the float product is exact for the
\* counts reached here.
survival(stats) == (stats.alive * 100) \div Max(stats.total, 1)

\* cmd_stats calls get_stats before get_user: without a row in users
\* "SELECT ideas_count" fetches None, None[0] raises TypeError and the
\* handler ends there, with no answer and no row created.
cmd_stats(u) ==
    /\ fsm[u] # "waiting_for_custom_days"
    /\ IF u \notin DOMAIN users
       THEN /\ reply' = Reply("cmd_stats", u, "error", 0, NoRow)
            /\ UNCHANGED users
       ELSE /\ users' = get_user_db(users, u, now)
            /\ reply' = ReplyOut("cmd_stats", u, "stats", survival(get_stats(u)),
                                 <<get_user(users, u, now)>>, <<get_stats(u)>>)
    /\ UNCHANGED <<now, tz, whisper, connections, tasks, ideas, idea_seq, deleted_ideas, payments, gateway,
                   temp_ideas, temp_photos, temp_voice, fsm, buttons, checks>>

(***************************************************************************)
(* Premium: the subscription menu, payments, /givepremium.                 *)
(***************************************************************************)
Plans == {"month", "year", "lifetime"}

cmd_premium(u) ==
    /\ users' = get_user_db(users, u, now)
    /\ IF get_user(users, u, now).is_premium = 1
       THEN /\ reply' = Reply("cmd_premium", u, "active", 0, <<get_user(users, u, now)>>)
            /\ UNCHANGED buttons
       ELSE /\ reply' = Reply("cmd_premium", u, "plans", 0, <<get_user(users, u, now)>>)
            /\ buttons' = AddBtns(u, {Btn("buy", 0)})
    /\ UNCHANGED <<now, tz, whisper, connections, tasks, ideas, idea_seq, deleted_ideas, payments, gateway,
                   temp_ideas, temp_photos, temp_voice, fsm, checks>>

\* need_premium calls cmd_premium(callback.message): the message is the
\* bot's own, so the row read (and created) is the bot's.
need_premium(u) ==
    /\ HasBtn(u, "need_premium", 0)
    /\ users' = get_user_db(users, BotId, now)
    /\ IF get_user(users, BotId, now).is_premium = 1
       THEN /\ reply' = Reply("need_premium", u, "active", 0, <<get_user(users, BotId, now)>>)
            /\ UNCHANGED buttons
       ELSE /\ reply' = Reply("need_premium", u, "plans", 0, <<get_user(users, BotId, now)>>)
            /\ buttons' = AddBtns(u, {Btn("buy", 0)})
    /\ UNCHANGED <<now, tz, whisper, connections, tasks, ideas, idea_seq, deleted_ideas, payments, gateway,
                   temp_ideas, temp_photos, temp_voice, fsm, checks>>

\* process_payment / create_payment: the gateway answers 200 with a new
\* payment id, or fails.
process_payment(u, plan, ok) ==
    /\ HasBtn(u, "buy", 0)
    /\ IF ok
       THEN LET pid == Cardinality(DOMAIN payments) + 1
            IN  /\ pid <= MaxPayments
                /\ payments' = payments @@ (pid :> [user_id |-> u, plan_type |-> plan,
                                                    status |-> "pending", paid_at |-> NULL])
                /\ gateway' = gateway @@ (pid :> "pending")
                /\ buttons' = AddBtns(u, {Btn("paid", pid)})
                /\ reply' = Reply("process_payment", u, "checkout", pid, NoRow)
       ELSE /\ reply' = Reply("process_payment", u, "error", 0, NoRow)
            /\ UNCHANGED <<payments, gateway, buttons>>
    /\ UNCHANGED <<now, tz, whisper, connections, tasks, users, ideas, idea_seq, deleted_ideas,
                   temp_ideas, temp_photos, temp_voice, fsm, checks>>

\* The payment processor settles a payment (the customer pays or gives up).
GatewaySettle(pid, status) ==
    /\ pid \in DOMAIN gateway
    /\ gateway[pid] \in {"pending", "waiting_for_capture"}
    /\ gateway[pid] # status
    /\ gateway' = [gateway EXCEPT ![pid] = status]
    /\ reply' = Reply("gateway", 0, status, pid, NoRow)
    /\ UNCHANGED <<now, tz, whisper, connections, tasks, db, fsm, buttons, checks>>

NoResponse == "none"            \* check_payment returned None

\* check_payment_status up to "status = await check_payment(payment_id)":
\* the handler is suspended with the gateway's answer on its way.
check_payment_status_request(u, pid, ok) ==
    /\ HasBtn(u, "paid", pid)
    /\ Len(checks) < MaxChecks
    /\ checks' = Append(checks, [user |-> u, payment_id |-> pid,
                                 status |-> IF ok THEN gateway[pid] ELSE NoResponse])
    /\ reply' = Reply("check_payment_status_request", u, "checking", pid, NoRow)
    /\ UNCHANGED <<now, tz, whisper, connections, tasks, db, gateway, fsm, buttons>>

RemoveAt(q, k) == SubSeq(q, 1, k - 1) \o SubSeq(q, k + 1, Len(q))

\* check_payment_status from the answer on.  edit_text replaces the message
\* that carried the "I paid" button.
check_payment_status(k) ==
    /\ k \in 1 .. Len(checks)
    /\ LET c == checks[k]
           pid == c.payment_id
       IN  /\ IF c.status = "succeeded"
              THEN IF pid \in DOMAIN payments
                   THEN /\ users' = activate_premium(users, payments[pid].user_id,
                                                     payments[pid].plan_type, now)
                        /\ payments' = [payments EXCEPT ![pid].status = "paid",
                                                        ![pid].paid_at = sqlite_now]
                        /\ buttons' = [buttons EXCEPT ![c.user] = @ \ {Btn("paid", pid)}]
                        /\ reply' = Reply("check_payment_status", c.user, "activated", pid, NoRow)
                   ELSE /\ reply' = Reply("check_payment_status", c.user, "unknown", pid, NoRow)
                        /\ UNCHANGED <<users, payments, buttons>>
              ELSE IF c.status \in {"pending", "waiting_for_capture"}
              THEN /\ reply' = Reply("check_payment_status", c.user, "processing", pid, NoRow)
                   /\ UNCHANGED <<users, payments, buttons>>
              ELSE IF c.status = "canceled"
              THEN /\ buttons' = [buttons EXCEPT ![c.user] = @ \ {Btn("paid", pid)}]
                   /\ reply' = Reply("check_payment_status", c.user, "canceled", pid, NoRow)
                   /\ UNCHANGED <<users, payments>>
              ELSE /\ reply' = Reply("check_payment_status", c.user, "not_found", pid, NoRow)
                   /\ UNCHANGED <<users, payments, buttons>>
    /\ checks' = RemoveAt(checks, k)
    /\ UNCHANGED <<now, tz, whisper, connections, tasks, ideas, idea_seq, deleted_ideas, gateway,
                   temp_ideas, temp_photos, temp_voice, fsm>>

\* /givepremium: without arguments the sender, for 36500 days; with a user
\* id that user, for the given days (30 when omitted).
cmd_give_premium(u, target, days) ==
    /\ fsm[u] # "waiting_for_custom_days"
    /\ users' = IF target \in DOMAIN users
                THEN [users EXCEPT ![target].is_premium = 1,
                                   ![target].premium_until = now + days * Day]
                ELSE users @@ (target :> [DefaultUser EXCEPT
                                             !.is_premium = 1,
                                             !.premium_until = now + days * Day])
    /\ reply' = Reply("cmd_give_premium", u,
                       IF target \in DOMAIN users THEN "given" ELSE "created",
                       target, NoRow)
    /\ UNCHANGED <<now, tz, whisper, connections, tasks, ideas, idea_seq, deleted_ideas, payments, gateway,
                   temp_ideas, temp_photos, temp_voice, fsm, buttons, checks>>

(***************************************************************************)
(* /export and its two buttons.                                            *)
(***************************************************************************)
ExportScopes == {"all", "valuable"}
ExportBtn(scope) == Btn(IF scope = "all" THEN "export_all" ELSE "export_valuable", 0)

cmd_export(u) ==
    /\ users' = get_user_db(users, u, now)
    /\ IF is_premium(users, u, now)
       THEN /\ buttons' = AddBtns(u, {ExportBtn(scope) : scope \in ExportScopes})
            /\ reply' = Reply("cmd_export", u, "menu", 0, <<get_user(users, u, now)>>)
       ELSE /\ reply' = Reply("cmd_export", u, "need_premium", 0,
                               <<get_user(users, u, now)>>)
            /\ UNCHANGED buttons
    /\ UNCHANGED <<now, tz, whisper, connections, tasks, ideas, idea_seq, deleted_ideas, payments, gateway,
                   temp_ideas, temp_photos, temp_voice, fsm, checks>>

\* out: the scope pressed, then the document sent (when one is sent); arg:
\* the number of notes in the caption.
process_export(u, scope) ==
    /\ HasBtn(u, ExportBtn(scope)[1], 0)
    /\ \E rows \in (IF scope = "all" THEN get_all_ideas_for_export(ideas, u)
                     ELSE get_valuable_ideas_for_export(ideas, u)) :
          LET title == IF scope = "all" THEN "all ideas" ELSE "valuable ideas"
          IN  reply' = IF Len(rows) = 0
                       THEN ReplyOut("process_export", u, "empty", 0, NoRow, <<scope>>)
                       ELSE ReplyOut("process_export", u, "document", Len(rows), NoRow,
                                     <<scope, export_to_markdown(rows, title)>>)
    /\ UNCHANGED <<now, tz, whisper, connections, tasks, db, gateway, fsm, buttons, checks>>

(***************************************************************************)
(* Search: /find with its argument, and the search button followed by the  *)
(* next text.  text: the query searched; out: the messages of the result   *)
(* list; arg: the number found.                                            *)
(***************************************************************************)
btn_find(u) ==
    /\ fsm[u] # "waiting_for_custom_days"
    /\ fsm' = [fsm EXCEPT ![u] = "waiting_for_query"]
    /\ reply' = Reply("btn_find", u, "ask_query", 0, NoRow)
    /\ UNCHANGED <<now, tz, whisper, connections, tasks, db, gateway, buttons, checks>>

\* rest: message.text[6:]
cmd_find(u, rest) ==
    /\ fsm[u] # "waiting_for_custom_days"
    /\ LET query == strip(rest)
       IN  IF query = <<>>
           THEN /\ reply' = Reply("cmd_find", u, "usage", 0, NoRow)
                /\ UNCHANGED buttons
           ELSE \E results \in SearchRows(ideas, u, query) :
                  IF Len(results) = 0
                  THEN /\ reply' = ReplyText("cmd_find", u, "nothing", 0, NoRow, query)
                       /\ UNCHANGED buttons
                  ELSE /\ reply' = Answer("cmd_find", u, "found", Len(results), NoRow, query,
                                [k \in 1 .. Len(results) |->
                                    Hit(ideas, results[k],
                                        cmd_find_preview(ideas[results[k]].content, query))])
                       /\ buttons' = AddBtns(u, {Btn("open", i) : i \in Range(results)})
    /\ UNCHANGED <<now, tz, whisper, connections, tasks, db, gateway, fsm, checks>>

state_clear_keep(states, u) == states

\* await state.clear(): the first statement of every handler that is
\* registered for a waiting state.
state_clear(states, u) == [states EXCEPT ![u] = "none"]

process_search_query(u, text) ==
    /\ fsm[u] = "waiting_for_query"
    /\ fsm' = state_clear(fsm, u)
    /\ LET query == strip(text)
       IN  \E results \in SearchRows(ideas, u, query) :
             IF Len(results) = 0
             THEN /\ reply' = ReplyText("process_search_query", u, "nothing", 0, NoRow, query)
                  /\ UNCHANGED buttons
             ELSE /\ reply' = Answer("process_search_query", u, "found", Len(results),
                           NoRow, query,
                           [k \in 1 .. Len(results) |->
                               Hit(ideas, results[k],
                                   process_search_query_preview(ideas[results[k]].content,
                                                                query))])
                  /\ buttons' = AddBtns(u, {Btn("open", i) : i \in Range(results)})
    /\ UNCHANGED <<now, tz, whisper, connections, tasks, db, gateway, checks>>

(***************************************************************************)
(* The freeze preference.                                                  *)
(***************************************************************************)
BasicPresets == {1, 7, 14, 21, 30}
LongPresets == {90, 999}

cmd_freeze(u) ==
    /\ users' = get_user_db(users, u, now)
    /\ buttons' = AddBtns(u, {Btn("freeze_basic", 0),
                              IF is_premium(users, u, now)
                              THEN Btn("freeze_long", 0)
                              ELSE Btn("need_premium", 0)})
    /\ reply' = Reply("cmd_freeze", u, "menu", 0, <<get_user(users, u, now)>>)
    /\ UNCHANGED <<now, tz, whisper, connections, tasks, ideas, idea_seq, deleted_ideas, payments, gateway,
                   temp_ideas, temp_photos, temp_voice, fsm, checks>>

\* UPDATE users SET freeze_mode = ? WHERE user_id = ?
set_freeze_mode(us, u, days) ==
    IF u \in DOMAIN us THEN [us EXCEPT ![u].freeze_mode = days] ELSE us

process_freeze(u, days) ==
    /\ \/ days \in BasicPresets /\ HasBtn(u, "freeze_basic", 0)
       \/ days \in LongPresets /\ HasBtn(u, "freeze_long", 0)
    /\ IF days > 30 /\ ~is_premium(users, u, now)
       THEN /\ users' = get_user_db(users, u, now)
            /\ reply' = Reply("process_freeze", u, "need_premium", days, NoRow)
       ELSE /\ users' = set_freeze_mode(IF days > 30 THEN get_user_db(users, u, now)
                                        ELSE users, u, days)
            /\ reply' = Reply("process_freeze", u, "set", days, NoRow)
    /\ UNCHANGED <<now, tz, whisper, connections, tasks, ideas, idea_seq, deleted_ideas, payments, gateway,
                   temp_ideas, temp_photos, temp_voice, fsm, buttons, checks>>

freeze_custom(u) ==
    /\ HasBtn(u, "freeze_long", 0)
    /\ fsm' = [fsm EXCEPT ![u] = "waiting_for_custom_days"]
    /\ reply' = Reply("freeze_custom", u, "ask_days", 0, NoRow)
    /\ UNCHANGED <<now, tz, whisper, connections, tasks, db, gateway, buttons, checks>>

\* int(message.text.strip()): the texts the model sends and their values.
CustomTexts == {"abc", "0", "45", "366"}
IsInt(text) == text \in {"0", "45", "366"}
IntOf(text) == IF text = "0" THEN 0 ELSE IF text = "45" THEN 45 ELSE 366

process_custom_freeze(u, text) ==
    /\ fsm[u] = "waiting_for_custom_days"
    /\ fsm' = state_clear(fsm, u)
    /\ IF ~IsInt(text)
       THEN /\ reply' = Reply("process_custom_freeze", u, "not_a_number", 0, NoRow)
            /\ UNCHANGED users
       ELSE IF IntOf(text) < 1 \/ IntOf(text) > 365
       THEN /\ reply' = Reply("process_custom_freeze", u, "out_of_range", IntOf(text), NoRow)
            /\ UNCHANGED users
       ELSE /\ users' = set_freeze_mode(users, u, IntOf(text))
            /\ reply' = Reply("process_custom_freeze", u, "set", IntOf(text), NoRow)
    /\ UNCHANGED <<now, tz, whisper, connections, tasks, ideas, idea_seq, deleted_ideas, payments, gateway,
                   temp_ideas, temp_photos, temp_voice, buttons, checks>>

\* What is typed after /find, and as the answer to the search prompt.
Queries == {<<"a">>, <<"Y">>, <<"q">>, <<"c">>}
FindArgs == Queries \cup {<<>>, <<" ", "a", " ">>}
PromptTexts == Queries \cup {<<" ">>}

IdeaIds == 1 .. idea_seq          \* every id ever given to a note

\* A callback query carries the data its sender chose: the id in it need
\* not come from a card the bot sent to that user (a card shown in a shared
\* chat, or data composed by the client).  kinds of cards: "thaw", "dump",
\* "open".
CardKinds == {"thaw", "dump", "open"}

callback_query(u, kind, i) ==
    /\ ~HasBtn(u, kind, i)
    /\ buttons' = AddBtns(u, {Btn(kind, i)})
    /\ reply' = Reply("callback_query", u, kind, i, NoRow)
    /\ UNCHANGED <<now, tz, whisper, connections, tasks, db, gateway, fsm, checks>>

\* The profile: its card with the button for the city, the prompt, and the
\* city a user types, kept only when the weather service knows it.
Cities == {"Moscow"}

cmd_profile(u) ==
    /\ fsm[u] # "waiting_for_custom_days"
    /\ users' = get_user_db(users, u, now)
    /\ buttons' = AddBtns(u, {Btn("set_city", 0)})
    /\ reply' = Reply("cmd_profile", u, "profile", 0, <<get_user(users, u, now)>>)
    /\ UNCHANGED <<now, tz, whisper, connections, tasks, ideas, idea_seq, deleted_ideas, payments, gateway,
                   temp_ideas, temp_photos, temp_voice, fsm, checks>>

set_city_callback(u) ==
    /\ HasBtn(u, "set_city", 0)
    /\ fsm' = [fsm EXCEPT ![u] = "waiting_for_city"]
    /\ reply' = Reply("set_city_callback", u, "ask_city", 0, NoRow)
    /\ UNCHANGED <<now, tz, whisper, connections, tasks, db, gateway, buttons, checks>>

process_city(u, city) ==
    /\ fsm[u] = "waiting_for_city"
    /\ fsm' = state_clear(fsm, u)
    /\ \E weather \in Weathers(city) :
          IF weather # NoWeather
          THEN /\ users' = IF u \in DOMAIN users
                           THEN [users EXCEPT ![u].city = city] ELSE users
               /\ reply' = Reply("process_city", u, "city_set", 0, NoRow)
          ELSE /\ reply' = Reply("process_city", u, "city_unknown", 0, NoRow)
               /\ UNCHANGED users
    /\ UNCHANGED <<now, tz, whisper, connections, tasks, ideas, idea_seq, deleted_ideas, payments, gateway,
                   temp_ideas, temp_photos, temp_voice, buttons, checks>>

Next ==
    \/ AdvanceClock
    \/ \E u \in Users : cmd_start(u)
    \/ \E u \in Users, text \in Texts : handle_text(u, text)
    \/ \E u \in Users, text \in Texts : handle_text_get_state(u, text)
    \/ \E k \in 1 .. MaxTasks : handle_text_get_user(k)
    \/ \E k \in 1 .. MaxTasks : handle_text_get_weather(k)
    \/ \E u \in Users : save_new_text(u)
    \/ \E u \in Users, caption \in Captions : handle_photo(u, caption)
    \/ \E u \in Users : save_new_photo(u)
    \/ \E u \in Users, text \in Transcriptions : handle_voice(u, text)
    \/ \E u \in Users : handle_voice_load_error(u)
    \/ \E u \in Users : save_voice_duplicate(u)
    \/ \E u \in Users : cmd_profile(u)
    \/ \E u \in Users : set_city_callback(u)
    \/ \E u \in Users, city \in Cities : process_city(u, city)
    \/ \E u \in Users : cmd_thaw(u)
    \/ \E u \in Users, i \in IdeaIds : open_idea(u, i)
    \/ finalize_connections
    \/ \E u \in Users, kind \in CardKinds, i \in IdeaIds : callback_query(u, kind, i)
    \/ \E u \in Users, i \in IdeaIds : delete_idea(u, i)
    \/ \E u \in Users, i \in IdeaIds : refreeze_idea(u, i)
    \/ \E u \in Users : cmd_dump(u)
    \/ \E u \in Users, i \in IdeaIds : dump_delete(u, i)
    \/ \E u \in Users, i \in IdeaIds : dump_valuable(u, i)
    \/ \E u \in Users, i \in IdeaIds : dump_freeze(u, i)
    \/ \E u \in Users : cmd_stats(u)
    \/ \E u \in Users : btn_find(u)
    \/ \E u \in Users, rest \in FindArgs : cmd_find(u, rest)
    \/ \E u \in Users, text \in PromptTexts : process_search_query(u, text)
    \/ \E u \in Users : cmd_export(u)
    \/ \E u \in Users, scope \in ExportScopes : process_export(u, scope)
    \/ \E u \in Users : cmd_premium(u)
    \/ \E u \in Users : need_premium(u)
    \/ \E u \in Users, plan \in Plans, ok \in BOOLEAN : process_payment(u, plan, ok)
    \/ \E pid \in 1 .. MaxPayments, st \in {"succeeded", "canceled"} : GatewaySettle(pid, st)
    \/ \E u \in Users, pid \in 1 .. MaxPayments, ok \in BOOLEAN :
          check_payment_status_request(u, pid, ok)
    \/ \E k \in 1 .. MaxChecks : check_payment_status(k)
    \/ \E u, target \in Users, days \in {30, 36500} : cmd_give_premium(u, target, days)
    \/ \E u \in Users : cmd_freeze(u)
    \/ \E u \in Users, days \in BasicPresets \cup LongPresets : process_freeze(u, days)
    \/ \E u \in Users : freeze_custom(u)
    \/ \E u \in Users, text \in CustomTexts : process_custom_freeze(u, text)

Spec == Init /\ [][Next]_vars

(***************************************************************************)
(* Parts of the system, each closed under the handlers that read or write  *)
(* the tables it is about.  Actors are the users who press and type; the   *)
(* other user of Users is there to be created and granted.                 *)
(***************************************************************************)
Actors == {1}
FreezeChoices == {30, 90, 999}

\* One note at most is saved in the parts that are not about notes.
FirstNote(u) == idea_seq = 0 /\ handle_text(u, Str_ab)

\* Payments: checkout, the gateway, the status check, activation.
NextPay ==
    \/ AdvanceClock
    \/ \E u \in Actors : FirstNote(u)
    \/ \E u \in Actors : cmd_premium(u)
    \/ \E u \in Actors, plan \in Plans, ok \in BOOLEAN : process_payment(u, plan, ok)
    \/ \E pid \in 1 .. MaxPayments, st \in {"succeeded", "canceled"} : GatewaySettle(pid, st)
    \/ \E u \in Actors, pid \in 1 .. MaxPayments, ok \in BOOLEAN :
          check_payment_status_request(u, pid, ok)
    \/ \E k \in 1 .. MaxChecks : check_payment_status(k)

SpecPay == InitAt({0}) /\ [][NextPay]_vars

\* The freeze preference and the premium flag it depends on.
NextFreeze ==
    \/ AdvanceClock
    \/ \E u \in Users : cmd_start(u)
    \/ \E u \in Actors : FirstNote(u)
    \/ \E u \in Actors : cmd_premium(u)
    \/ \E u \in Actors : need_premium(u)
    \/ \E u \in Actors, target \in Users, days \in {30} : cmd_give_premium(u, target, days)
    \/ \E u \in Actors : cmd_freeze(u)
    \/ \E u \in Actors, days \in FreezeChoices : process_freeze(u, days)
    \/ \E u \in Actors : freeze_custom(u)
    \/ \E u \in Actors, text \in CustomTexts : process_custom_freeze(u, text)

SpecFreeze == InitAt({0}) /\ [][NextFreeze]_vars

\* The custom freeze duration of a subscriber who paid for a month.
NextCustom ==
    \/ AdvanceClock
    \/ \E u \in Actors : cmd_premium(u)
    \/ \E u \in Actors, ok \in BOOLEAN : process_payment(u, "month", ok)
    \/ \E pid \in 1 .. MaxPayments, st \in {"succeeded", "canceled"} : GatewaySettle(pid, st)
    \/ \E u \in Actors, pid \in 1 .. MaxPayments, ok \in BOOLEAN :
          check_payment_status_request(u, pid, ok)
    \/ \E k \in 1 .. MaxChecks : check_payment_status(k)
    \/ \E u \in Actors : cmd_freeze(u)
    \/ \E u \in Actors : freeze_custom(u)
    \/ \E u \in Actors, text \in CustomTexts : process_custom_freeze(u, text)

SpecCustom == InitAt({0}) /\ [][NextCustom]_vars

\* Notes over time: saving, the freeze preference and the thaw view, under
\* every time zone.
NextThaw ==
    \/ AdvanceClock
    \/ \E u \in Actors : cmd_freeze(u)
    \/ \E u \in Actors : process_freeze(u, 30)
    \/ \E u \in Actors, text \in {Str_ab, Str_xy} : handle_text(u, text)
    \/ \E u \in Users \ Actors : handle_text(u, Str_ab)
    \/ \E u \in Users : cmd_thaw(u)
    \/ \E u \in Actors, i \in IdeaIds : open_idea(u, i)
    \/ \E u \in Actors, i \in IdeaIds : refreeze_idea(u, i)

SpecThaw == Init /\ [][NextThaw]_vars
SpecThawUTC == InitAt({0}) /\ [][NextThaw]_vars

\* Cleaning up: deletion from the thaw view and the bulk-cleanup view.
NextClean ==
    \/ AdvanceClock
    \/ \E u \in Actors, text \in {Str_ab, Str_xy} : handle_text(u, text)
    \/ \E u \in Users \ Actors : handle_text(u, Str_ab)
    \/ \E u \in Users : cmd_thaw(u)
    \/ \E u \in Actors, i \in IdeaIds : delete_idea(u, i)
    \/ \E u \in Users : cmd_dump(u)
    \/ \E u \in Actors, i \in IdeaIds : dump_delete(u, i)
    \/ \E u \in Actors, i \in IdeaIds : dump_valuable(u, i)
    \/ \E u \in Actors, i \in IdeaIds : dump_freeze(u, i)

SpecClean == InitAt({0}) /\ [][NextClean]_vars

\* Deletion alone, next to the note of a user who only writes.
NextDelete ==
    \/ AdvanceClock
    \/ \E u \in Actors, text \in {Str_ab, Str_xy} : handle_text(u, text)
    \/ \E u \in Users \ Actors : handle_text(u, Str_ab)
    \/ \E u \in Actors : cmd_thaw(u)
    \/ \E u \in Actors, i \in IdeaIds : delete_idea(u, i)
    \/ \E u \in Actors : cmd_dump(u)
    \/ \E u \in Actors, i \in IdeaIds : dump_delete(u, i)

SpecDelete == InitAt({0}) /\ [][NextDelete]_vars


\* Saving under every freeze preference that can be stored, under every
\* time zone.
NextInsert ==
    \/ AdvanceClock
    \/ \E u \in Actors : cmd_give_premium(u, u, 36500)
    \/ \E u \in Actors : cmd_freeze(u)
    \/ \E u \in Actors, days \in BasicPresets \cup LongPresets : process_freeze(u, days)
    \/ \E u \in Actors : freeze_custom(u)
    \/ \E u \in Actors, text \in CustomTexts : process_custom_freeze(u, text)
    \/ \E u \in Actors : FirstNote(u)

SpecInsert == Init /\ [][NextInsert]_vars

\* Re-freezing from the two views, on a server in UTC and on one two
\* seconds west of it; the clock also stops two seconds short of 30 days
\* after the start.
NextRefreeze ==
    \/ AdvanceBy({0, 30 * Day - 2 * Second, 30 * Day})
    \/ \E u \in Actors : cmd_freeze(u)
    \/ \E u \in Actors : process_freeze(u, 1)
    \/ \E u \in Actors, text \in {Str_ab, Str_xy} : handle_text(u, text)
    \/ \E u \in Actors : cmd_thaw(u)
    \/ \E u \in Actors, i \in IdeaIds : refreeze_idea(u, i)
    \/ \E u \in Actors : cmd_dump(u)
    \/ \E u \in Actors, i \in IdeaIds : dump_freeze(u, i)

SpecRefreeze == InitAt({0 - 2 * Second, 0}) /\ [][NextRefreeze]_vars

\* Export: a premium granted for 30 days, text and voice notes, the
\* bulk-cleanup view that marks notes valuable, /export and its buttons.
NextExport ==
    \/ AdvanceClock
    \/ \E u \in Actors : cmd_give_premium(u, u, 30)
    \/ \E u \in Actors : handle_text(u, Str_ab)
    \/ \E u \in Actors : handle_voice(u, NoText)
    \/ \E u \in Actors : cmd_dump(u)
    \/ \E u \in Actors, i \in IdeaIds : dump_valuable(u, i)
    \/ \E u \in Actors : cmd_export(u)
    \/ \E u \in Actors, scope \in ExportScopes : process_export(u, scope)

SpecExport == InitAt({0}) /\ [][NextExport]_vars

\* Search: notes, the two entry points of the search, opening a result.
NextSearch ==
    \/ \E u \in Actors, text \in SearchTexts : handle_text(u, text)
    \/ \E u \in Actors : btn_find(u)
    \/ \E u \in Actors, rest \in FindArgs : cmd_find(u, rest)
    \/ \E u \in Actors, text \in PromptTexts : process_search_query(u, text)
    \/ \E u \in Actors, i \in IdeaIds : open_idea(u, i)

SpecSearch == InitAt({0}) /\ [][NextSearch]_vars

\* check_similarity by itself, on tables of every shape the query can tell
\* apart.  User 1 has n notes, saved one a second, the oldest with content
\* oldest and the newest with content newest, fillers between; user 2 has
\* one note, the newest of the table.  With tie the two newest notes of
\* user 1 were saved in the same second.
NoteAt(u, content, t) ==
    [user_id |-> u, content |-> content, idea_type |-> "text",
     frozen_until |-> t + 7 * Day, created_at |-> t,
     opened_count |-> 0, is_valuable |-> 0,
     day_of_week |-> strftime_A(t), time_of_day |-> strftime_HM(t),
     weather |-> NoWeather]

SimTable(n, oldest, newest, other, tie) ==
    [i \in 1 .. (n + 1) |->
        IF i = n + 1 THEN NoteAt(2, other, (n + 1) * Second)
        ELSE NoteAt(1,
                    IF i = 1 THEN oldest ELSE IF i = n THEN newest ELSE Str_xy,
                    IF tie /\ i = n /\ n > 1 THEN (n - 1) * Second ELSE i * Second)]

SimSizes == {1, 2, SimWindow, SimWindow + 1}
SimNow == (SimWindow + 3) * Second

InitSim ==
    /\ now = SimNow
    /\ tz = 0
    /\ WHISPER_AVAILABLE = TRUE
    /\ WHISPER_MODEL = "None"
    /\ connections = 0
    /\ tasks = <<>>
    /\ \E n \in SimSizes, oldest \in {Str_ab, Str_q10, NoText},
          newest \in {Str_Abc, Str_xy}, tie \in BOOLEAN :
          /\ ideas = SimTable(n, oldest, newest, Str_ab, tie)
          /\ idea_seq = n + 1
          /\ users = <<[DefaultUser EXCEPT !.ideas_count = n],
                       [DefaultUser EXCEPT !.ideas_count = 1]>>
    /\ deleted_ideas = [u \in Users |-> 0]
    /\ payments = <<>>
    /\ gateway = <<>>
    /\ temp_ideas = <<>>
    /\ temp_photos = <<>>
    /\ temp_voice = <<>>
    /\ fsm = [u \in Users |-> "none"]
    /\ buttons = [u \in Users |-> {}]
    /\ checks = <<>>
    /\ reply = Reply("init", 0, "", 0, NoRow)

\* One call check_similarity(u, new_content); arg: the id returned, 0 for
\* None.
call_check_similarity(u, new_content) ==
    /\ \E rows \in RecentRows(ideas, u) :
          reply' = ReplyText("check_similarity", u, "result",
                             check_similarity(ideas, rows, new_content), NoRow,
                             new_content)
    /\ UNCHANGED <<now, tz, whisper, connections, tasks, db, gateway, fsm, buttons, checks>>

SimQueries == {Str_ab, Str_Abc, Str_p10, NoText}

NextSim == \E u \in Users, new_content \in SimQueries : call_check_similarity(u, new_content)

SpecSim == InitSim /\ [][NextSim]_vars

\* The ratio by itself: SequenceMatcher(None, new.lower(), old.lower())
\* on every pair of a few short texts.
Str_aba == <<"a", "b", "a">>
Str_acbab == <<"a", "c", "b", "a", "b">>
Str_bacb == <<"b", "a", "c", "b">>
RatioTexts ==
    {NoText, <<"a">>, Str_ab, <<"b", "a">>, Str_Abc, Str_xAb, Str_aba, Str_bacb,
     Str_acbab, Str_xy, Str_p10, Str_q10}

\* text: the new content; out: the old content and the ratio.
SequenceMatcher(new_content, old_content) ==
    /\ reply' = Answer("SequenceMatcher", 0, "ratio", 0, NoRow, new_content,
                       <<old_content, ratio(Lower(new_content), Lower(old_content))>>)
    /\ UNCHANGED <<now, tz, whisper, connections, tasks, db, gateway, fsm, buttons, checks>>

NextRatio == \E new_content, old_content \in RatioTexts : SequenceMatcher(new_content, old_content)

SpecRatio == InitAt({0}) /\ [][NextRatio]_vars

\* The temperature shown by the two lists.  User 1 has two notes saved 30
\* days ago or more and opened n1 and n2 times since; the first is thawed or has
\* been frozen again, the second is thawed.
MaxOpens == 4

InitTemp ==
    /\ now = StartNow + 30 * Day + Second
    /\ tz = 0
    /\ WHISPER_AVAILABLE = TRUE
    /\ WHISPER_MODEL = "None"
    /\ connections = 0
    /\ tasks = <<>>
    /\ \E n1, n2 \in 0 .. MaxOpens, again \in BOOLEAN :
          ideas = <<[NoteAt(1, Str_ab, StartNow) EXCEPT
                        !.opened_count = n1,
                        !.frozen_until = IF again THEN now + 30 * Day ELSE @],
                    [NoteAt(1, Str_xy, StartNow + Second) EXCEPT !.opened_count = n2]>>
    /\ idea_seq = 2
    /\ users = <<[DefaultUser EXCEPT !.ideas_count = 2]>>
    /\ deleted_ideas = [u \in Users |-> 0]
    /\ payments = <<>>
    /\ gateway = <<>>
    /\ temp_ideas = <<>>
    /\ temp_photos = <<>>
    /\ temp_voice = <<>>
    /\ fsm = [u \in Users |-> "none"]
    /\ buttons = [u \in Users |-> {}]
    /\ checks = <<>>
    /\ reply = Reply("init", 0, "", 0, NoRow)

NextTemp ==
    \/ \E u \in Users : cmd_thaw(u)
    \/ \E u \in Users : cmd_dump(u)

SpecTemp == InitTemp /\ [][NextTemp]_vars

\* Payments of users who may be premium already: as NextPay, with a grant
\* of 100 years and the export menu, which only a premium user is shown.
NextRenew ==
    \/ AdvanceClock
    \/ \E u \in Actors : cmd_give_premium(u, u, 36500)
    \/ \E u \in Actors : cmd_export(u)
    \/ \E u \in Actors : cmd_premium(u)
    \/ \E u \in Actors, plan \in Plans, ok \in BOOLEAN : process_payment(u, plan, ok)
    \/ \E pid \in 1 .. MaxPayments, st \in {"succeeded", "canceled"} : GatewaySettle(pid, st)
    \/ \E u \in Actors, pid \in 1 .. MaxPayments, ok \in BOOLEAN :
          check_payment_status_request(u, pid, ok)
    \/ \E k \in 1 .. MaxChecks : check_payment_status(k)

SpecRenew == InitAt({0}) /\ [][NextRenew]_vars

\* Voice notes of free and premium users, with and without a city, with
\* faster_whisper installed or not.
NextVoice ==
    \/ \E u \in Actors : cmd_give_premium(u, u, 36500)
    \/ \E u \in Actors : cmd_profile(u)
    \/ \E u \in Actors : set_city_callback(u)
    \/ \E u \in Actors, city \in Cities : process_city(u, city)
    \/ \E u \in Actors, text \in Transcriptions : handle_voice(u, text)
    \/ \E u \in Actors : handle_voice_load_error(u)
    \/ \E u \in Actors : save_voice_duplicate(u)

SpecVoice == InitWith({0}, BOOLEAN) /\ [][NextVoice]_vars

\* Views: notes are written, found or thawed, opened and deleted, and the
\* interpreter finalises what the handlers left open.
MaxViews == 3
NextOpen ==
    \/ AdvanceBy({30 * Day})
    \/ \E u \in Actors, text \in {Str_ab, Str_xy} : handle_text(u, text)
    \/ \E u \in Actors, rest \in {<<"a">>, <<"Y">>} : cmd_find(u, rest)
    \/ \E u \in Actors : cmd_thaw(u)
    \/ \E u \in Actors, i \in IdeaIds : open_idea_upto(u, i, MaxViews)
    \/ finalize_connections
    \/ \E u \in Actors, i \in IdeaIds : delete_idea(u, i)

SpecOpen == InitAt({0}) /\ [][NextOpen]_vars

\* Text messages of one user whose handlers interleave at their awaits,
\* before and after the user sets a city; no prompt is confirmed.
NextRace ==
    \/ \E u \in Actors : cmd_profile(u)
    \/ \E u \in Actors : set_city_callback(u)
    \/ \E u \in Actors, city \in Cities : process_city(u, city)
    \/ \E u \in Actors, text \in {Str_ab, Str_xy} : handle_text_get_state(u, text)
    \/ \E k \in 1 .. MaxTasks : handle_text_get_user(k)
    \/ \E k \in 1 .. MaxTasks : handle_text_get_weather(k)

SpecRace == InitAt({0}) /\ [][NextRace]_vars

\* The ledger of deletions: notes are written, confirmed after a prompt,
\* thawed, marked valuable and deleted, the same button more than once.
MaxDeletes == 2

NextLedger ==
    \/ AdvanceBy({30 * Day})
    \/ \E u \in Actors, text \in {Str_ab, Str_xy} : handle_text(u, text)
    \/ \E u \in Actors : save_new_text(u)
    \/ \E u \in Actors : cmd_thaw(u)
    \/ \E u \in Actors, i \in IdeaIds : delete_idea_upto(u, i, MaxDeletes)
    \/ \E u \in Actors : cmd_dump(u)
    \/ \E u \in Actors, i \in IdeaIds : dump_valuable(u, i)
    \/ \E u \in Actors : cmd_stats(u)

SpecLedger == InitAt({0}) /\ [][NextLedger]_vars

\* Statistics of users who write, delete and ask, under every time zone.
NextStats ==
    \/ AdvanceClock
    \/ \E u \in Users : cmd_start(u)
    \/ \E u \in Actors, text \in {Str_ab, Str_xy} : handle_text(u, text)
    \/ \E u \in Actors : cmd_thaw(u)
    \/ \E u \in Actors, i \in IdeaIds : delete_idea(u, i)
    \/ \E u \in Users : cmd_stats(u)

SpecStats == Init /\ [][NextStats]_vars

\* The duplicate gate.  User 1 has saved and deleted FREE_LIMIT - 1 notes
\* before.
InitNearLimit ==
    /\ now = StartNow
    /\ tz = 0
    /\ WHISPER_AVAILABLE = TRUE
    /\ WHISPER_MODEL = "None"
    /\ connections = 0
    /\ tasks = <<>>
    /\ users = (1 :> [DefaultUser EXCEPT !.ideas_count = FREE_LIMIT - 1])
    /\ ideas = <<>>
    /\ idea_seq = FREE_LIMIT - 1
    /\ deleted_ideas = [u \in Users |-> IF u = 1 THEN FREE_LIMIT - 1 ELSE 0]
    /\ payments = <<>>
    /\ gateway = <<>>
    /\ temp_ideas = <<>>
    /\ temp_photos = <<>>
    /\ temp_voice = <<>>
    /\ fsm = [u \in Users |-> "none"]
    /\ buttons = [u \in Users |-> {}]
    /\ checks = <<>>
    /\ reply = Reply("init", 0, "", 0, NoRow)

NextDup ==
    \/ \E u \in Actors : cmd_give_premium(u, u, 36500)
    \/ \E u \in Actors, text \in Texts : handle_text(u, text)
    \/ \E u \in Actors : save_new_text(u)
    \/ \E u \in Actors, caption \in Captions : handle_photo(u, caption)
    \/ \E u \in Actors : save_new_photo(u)
    \/ \E u \in Actors, text \in Transcriptions : handle_voice(u, text)
    \/ \E u \in Actors : save_voice_duplicate(u)

SpecDup == InitNearLimit /\ [][NextDup]_vars

\* The free limit: a user one note below it who never pays, whose text
\* handlers interleave at their awaits and who confirms prompts.
NextLimit ==
    \/ \E u \in Actors : cmd_profile(u)
    \/ \E u \in Actors : set_city_callback(u)
    \/ \E u \in Actors, city \in Cities : process_city(u, city)
    \/ \E u \in Actors, text \in {Str_ab, Str_xy} : handle_text_get_state(u, text)
    \/ \E k \in 1 .. MaxTasks : handle_text_get_user(k)
    \/ \E k \in 1 .. MaxTasks : handle_text_get_weather(k)
    \/ \E u \in Actors : save_new_text(u)
    \/ \E u \in Actors, caption \in Captions : handle_photo(u, caption)
    \/ \E u \in Actors : handle_voice(u, NoText)

SpecLimit == InitNearLimit /\ [][NextLimit]_vars

\* Prompts: a user with a note repeats it in two wordings, at different
\* times or in the same second, and confirms.
MaxPrompts == 2

NextPrompts ==
    \/ AdvanceBy({10 * Day})
    \/ \E u \in Actors, text \in {Str_ab, Str_Abc} : handle_text_upto(u, text, MaxPrompts)
    \/ \E u \in Actors : save_new_text(u)

SpecPrompts == InitAt({0}) /\ [][NextPrompts]_vars

\* Two users: user 2 writes notes, user 1 sends callback queries with the
\* id of the first note.
NextOwner ==
    \/ \E text \in {Str_ab, Str_xy} : handle_text(2, text)
    \/ \E kind \in {"thaw", "dump"} : callback_query(1, kind, 1)
    \/ \E i \in IdeaIds : open_idea(1, i)
    \/ \E i \in IdeaIds : delete_idea(1, i)
    \/ \E i \in IdeaIds : refreeze_idea(1, i)
    \/ \E i \in IdeaIds : dump_valuable(1, i)
    \/ \E i \in IdeaIds : dump_freeze(1, i)
    \/ \E u \in Users : cmd_stats(u)

SpecOwner == InitAt({0}) /\ [][NextOwner]_vars

\* A month of premium bought through the gateway, a long preset chosen while
\* it lasts, and notes written before and after it has run out.
NextExpiry ==
    \/ AdvanceClock
    \/ \E u \in Actors : cmd_premium(u)
    \/ \E u \in Actors : process_payment(u, "month", TRUE)
    \/ \E pid \in 1 .. MaxPayments : GatewaySettle(pid, "succeeded")
    \/ \E u \in Actors, pid \in 1 .. MaxPayments :
          check_payment_status_request(u, pid, TRUE)
    \/ \E k \in 1 .. MaxChecks : check_payment_status(k)
    \/ \E u \in Actors : cmd_freeze(u)
    \/ \E u \in Actors, days \in {30, 90} : process_freeze(u, days)
    \/ \E u \in Actors : handle_text(u, Str_ab)

SpecExpiry == InitAt({0}) /\ [][NextExpiry]_vars

\* The three waits of a session (search query, custom freeze days, city),
\* the text messages that arrive meanwhile and the confirmation button of a
\* duplicate prompt.
NextWait ==
    \/ \E u \in Actors : cmd_give_premium(u, u, 36500)
    \/ \E u \in Actors : btn_find(u)
    \/ \E u \in Actors, text \in PromptTexts : process_search_query(u, text)
    \/ \E u \in Actors : cmd_freeze(u)
    \/ \E u \in Actors : freeze_custom(u)
    \/ \E u \in Actors, text \in CustomTexts : process_custom_freeze(u, text)
    \/ \E u \in Actors : cmd_profile(u)
    \/ \E u \in Actors : set_city_callback(u)
    \/ \E u \in Actors, city \in Cities : process_city(u, city)
    \/ \E u \in Actors, text \in {Str_ab, Str_xy} : handle_text(u, text)
    \/ \E u \in Actors : save_new_text(u)

SpecWait == InitAt({0}) /\ [][NextWait]_vars
(***************************************************************************)
(* Claims.                                                                 *)
(***************************************************************************)

\* C1: at every instant the thaw list of a user holds a note of that user
\* if and only if the note's freeze-expiry is <= the current time (a note
\* whose expiry equals now is listed).  The query compares the expiry, which
\* Python wrote in local time with its sub-second part, with SQLite's
\* datetime('now'), which is UTC cut to whole seconds.
C1_ThawedIffExpired ==
    \A u \in Users : \A i \in IdsOf(ideas, u) :
        (i \in get_thawed_ideas(u)) <=> (ideas[i].frozen_until <= now)

\* What the claims about incoming content speak of.
ContentOps == {"handle_text", "handle_photo", "handle_voice"}

\* Note i is among the 50 most recent notes of u in every order of the query.
SurelyRecent(u, i) ==
    Cardinality({j \in IdsOf(ideas, u) \ {i} :
                    ideas[j].created_at >= ideas[i].created_at}) < 50

\* The notes of u, among the 50 most recent, that content c is similar to.
SimilarNotes(u, c) ==
    {i \in IdsOf(ideas, u) :
        /\ SurelyRecent(u, i)
        /\ c # NoText /\ ideas[i].content # NoText
        /\ Similar[c, ideas[i].content]}

PickTable(op, ti, tp, tv) ==
    IF op \in {"handle_text", "save_new_text"} THEN ti
    ELSE IF op \in {"handle_photo", "save_new_photo"} THEN tp
    ELSE tv
StagingTable(op) == PickTable(op, temp_ideas, temp_photos, temp_voice)
StagingTableNext(op) == PickTable(op, temp_ideas', temp_photos', temp_voice')

\* The step stored nothing in ideas, left the count of u alone, staged the
\* content and showed the duplicate prompt about a similar note.
DuplicatePrompted(u) ==
    /\ ideas' = ideas /\ idea_seq' = idea_seq
    /\ users'[u].ideas_count = get_user(users, u, now).ideas_count
    /\ reply'.kind = "duplicate"
    /\ reply'.arg \in SimilarNotes(u, reply'.text)
    /\ LET old == StagingTable(reply'.op)
           new == StagingTableNext(reply'.op)
       IN  /\ Len(new) = Len(old) + 1
           /\ new[Len(new)].user_id = u
           /\ new[Len(new)].content = reply'.text
           /\ \A k \in 1 .. Len(old) : new[k] = old[k]

ReachesDuplicateCheck(u) ==
    LET user == get_user(users, u, now)
    IN  /\ user.is_premium = 1 \/ user.ideas_count < FREE_LIMIT
        /\ reply'.op = "handle_voice" =>
              user.is_premium = 1 /\ reply'.text # VoicePlaceholder

SaveOps == {"save_new_text", "save_new_photo", "save_voice_duplicate"}
TypeOf(op) ==
    IF op = "save_new_text" THEN "text"
    ELSE IF op = "save_new_photo" THEN "photo" ELSE "voice"

C4_DeleteRemovesOne ==
    [][/\ (reply'.op \in {"delete_idea", "dump_delete"}
           /\ reply'.arg \in DOMAIN ideas) =>
             LET i == reply'.arg
                 owner == ideas[i].user_id
             IN  /\ DOMAIN ideas' = DOMAIN ideas \ {i}
                 /\ \A k \in DOMAIN ideas' : ideas'[k] = ideas[k]
                 /\ \A u \in Users :
                       i \notin get_thawed_ideas(u)' /\ i \notin get_old_ideas(u)'
                 /\ deleted_ideas' = [deleted_ideas EXCEPT ![owner] = @ + 1]
                 /\ users' = users
       /\ \A i \in 1 .. idea_seq :
             i \notin DOMAIN ideas => i \notin DOMAIN ideas'
    ]_vars

\* A note was deleted from the bulk-cleanup view while the user's other
\* note stayed.
C4_Witness ==
    /\ reply.op = "dump_delete" /\ reply.kind = "deleted"
    /\ reply.arg \in 1 .. idea_seq /\ reply.arg \notin DOMAIN ideas
    /\ deleted_ideas[reply.user] = 1
    /\ IdsOf(ideas, reply.user) # {}

\* C5 as stated: a status check on a payment already recorded as paid does
\* not change the user's premium-expiry (activation happens once).
C5_PaidOnce ==
    [][(/\ reply'.op = "check_payment_status"
        /\ reply'.arg \in DOMAIN payments
        /\ payments[reply'.arg].status = "paid")
          => users' = users]_vars

\* The user is not premium now: no row, flag off, or expiry passed.
NotPremiumAt(u) ==
    \/ u \notin DOMAIN users
    \/ users[u].is_premium = 0
    \/ users[u].premium_until # NULL /\ users[u].premium_until < now

FreezeModeKept(u) ==
    /\ u \in DOMAIN users'
    /\ users'[u].freeze_mode
          = IF u \in DOMAIN users THEN users[u].freeze_mode ELSE 7

\* C6 as stated: a custom value above 30 days (and within the accepted
\* range) sent by a user who is not premium at that moment is rejected with
\* the upgrade-required answer and the stored preference is unchanged.
C6_CustomNeedsPremium ==
    [][(/\ reply'.op = "process_custom_freeze"
        /\ reply'.kind \notin {"not_a_number", "out_of_range"}
        /\ reply'.arg > 30
        /\ NotPremiumAt(reply'.user))
          => (reply'.kind = "need_premium" /\ FreezeModeKept(reply'.user))]_vars

\* C7: a preset above 30 days (90 or 999) chosen by a user who is not
\* premium at that moment, an expired premium included, is rejected and the
\* stored preference is unchanged.
C7_PresetNeedsPremium ==
    [][(/\ reply'.op = "process_freeze"
        /\ reply'.arg > 30
        /\ NotPremiumAt(reply'.user))
          => (reply'.kind = "need_premium" /\ FreezeModeKept(reply'.user))]_vars

\* A user whose premium has run out, with the flag still stored, chose the
\* indefinite preset and was refused.
C7_Witness ==
    /\ reply.op = "process_freeze" /\ reply.kind = "need_premium"
    /\ reply.arg = 999
    /\ reply.user \in DOMAIN users
    /\ users[reply.user].premium_until # NULL
    /\ users[reply.user].premium_until < now
    /\ users[reply.user].freeze_mode <= 30

\* C8: activation sets premium and the expiry to now + 30, 365 or 36500 days
\* by plan, and changes no other field of the user, no other user and no
\* note.
C8_Activate ==
    [][reply'.kind = "activated" =>
          LET pid == reply'.arg
              u == payments[pid].user_id
              plan == payments[pid].plan_type
              days == IF plan = "month" THEN 30
                      ELSE IF plan = "year" THEN 365 ELSE 36500
          IN  /\ u \in DOMAIN users
              /\ users' = [users EXCEPT ![u] =
                              [users[u] EXCEPT !.is_premium = 1,
                                               !.premium_until = now + days * Day]]
              /\ ideas' = ideas]_vars

\* A yearly plan was activated for a user who has a note.
C8_Witness ==
    /\ reply.kind = "activated"
    /\ payments[reply.arg].plan_type = "year"
    /\ users[reply.user].is_premium = 1
    /\ users[reply.user].premium_until = now + 365 * Day
    /\ users[reply.user].ideas_count = 1
    /\ ideas # <<>>

\* The user whose row the handler read.
ReadUser == IF reply.op = "need_premium" THEN BotId ELSE reply.user

Expired(row) ==
    row.is_premium = 1 /\ row.premium_until # NULL /\ row.premium_until < now

\* C9: no row returned by get_user is premium with an expiry in the past,
\* and the stored flag has been cleared by the time it is returned.
C9_NoExpiredPremiumReturned ==
    reply.row # NoRow =>
        /\ ~Expired(reply.row[1])
        /\ ~Expired(users[ReadUser])

\* A read found the premium run out and returned the row with the flag off.
C9_Witness ==
    /\ reply.row # NoRow
    /\ reply.row[1].is_premium = 0
    /\ reply.row[1].premium_until # NULL
    /\ reply.row[1].premium_until < now
    /\ users[ReadUser].is_premium = 0

\* The row of u as the step created it: what get_user returned to the
\* handler, or the stored row when the handler did not read it.
CreatedRow(u) == IF reply'.row # NoRow THEN reply'.row[1] ELSE users'[u]

\* C10 as stated: a user record created by any operation has freeze
\* preference 7, premium off and count 0.
C10_NewUserDefaults ==
    [][\A u \in Users \cup {BotId} :
          (u \notin DOMAIN users /\ u \in DOMAIN users') =>
              /\ CreatedRow(u).freeze_mode = 7
              /\ CreatedRow(u).is_premium = 0
              /\ CreatedRow(u).ideas_count = 0]_vars

\* C11: a new user with default settings sends one text note: the note has
\* type text and freeze-expiry = the moment of creation + 7 days; /stats
\* right after it reports total 1, alive 1, deleted 0, valuable 0, 100%.
C11_FirstNoteAndStats ==
    [][/\ (reply'.op = "handle_text" /\ reply'.kind = "saved"
           /\ reply'.row[1] = DefaultUser) =>
             /\ reply'.arg \notin DOMAIN ideas
             /\ ideas'[reply'.arg].user_id = reply'.user
             /\ ideas'[reply'.arg].idea_type = "text"
             /\ ideas'[reply'.arg].content = reply'.text
             /\ ideas'[reply'.arg].frozen_until = now + 7 * Day
       /\ (reply.op = "handle_text" /\ reply.kind = "saved"
           /\ reply.row[1] = DefaultUser
           /\ reply'.op = "cmd_stats" /\ reply'.user = reply.user) =>
             /\ reply'.kind = "stats"
             /\ reply'.out = <<[total |-> 1, alive |-> 1, deleted |-> 0, valuable |-> 0]>>
             /\ reply'.arg = 100
    ]_vars

\* The first note of a user was saved for 7 days and the statistics asked.
C11_Witness ==
    /\ reply.op = "cmd_stats" /\ reply.kind = "stats"
    /\ reply.out = <<[total |-> 1, alive |-> 1, deleted |-> 0, valuable |-> 0]>>
    /\ reply.arg = 100
    /\ \E i \in IdsOf(ideas, reply.user) :
          ideas[i].idea_type = "text" /\ ideas[i].frozen_until = now + 7 * Day

\* C12 as stated: /stats answers for every user id, also one without a row
\* in users, with total, alive, deleted, valuable and survival all 0.
C12_StatsForUnknownUser ==
    [][(reply'.op = "cmd_stats" /\ reply'.user \notin DOMAIN users) =>
          /\ reply'.kind = "stats"
          /\ reply'.out = <<[total |-> 0, alive |-> 0, deleted |-> 0, valuable |-> 0]>>
          /\ reply'.arg = 0]_vars

\* C13 as stated: a note created under a preference of d days gets
\* freeze-expiry = creation + d days, and under the indefinite sentinel (999)
\* an expiry about 100 years after creation.
C13_ExpiryFromPreference ==
    [][(reply'.op = "handle_text" /\ reply'.kind = "saved") =>
          LET d == reply'.row[1].freeze_mode
              expiry == ideas'[reply'.arg].frozen_until
          IN  IF d = 999 THEN expiry >= now + 99 * 365 * Day
              ELSE expiry = now + d * Day]_vars

\* C14: every note, when it is inserted, has freeze-expiry >= its creation
\* time (the moment of creation and the stored created_at), whatever
\* preference a preset or the custom input has stored.
C14_ExpiryNotBeforeCreation ==
    [][idea_seq' = idea_seq + 1 =>
          /\ ideas'[idea_seq'].frozen_until >= now
          /\ ideas'[idea_seq'].frozen_until >= ideas'[idea_seq'].created_at
          /\ get_user(users, ideas'[idea_seq'].user_id, now).freeze_mode >= 1]_vars

\* A note was saved under the shortest preference on a server west of UTC.
C14_Witness ==
    /\ reply.op = "handle_text" /\ reply.kind = "saved"
    /\ tz < 0
    /\ reply.row[1].freeze_mode = 1
    /\ ideas[reply.arg].frozen_until = now + Day
    /\ ideas[reply.arg].created_at > now

\* C15 as stated: re-freeze from the thaw view sets the note's expiry to
\* now + 30 days and from the bulk-cleanup view to now + 90 days, whatever
\* the preference, and changes nothing else; as time then passes the note
\* stays out of the thawed list while now is before that expiry.
C15_Refreeze ==
    [][/\ (reply'.op = "refreeze_idea" /\ reply'.arg \in DOMAIN ideas) =>
             ideas' = [ideas EXCEPT ![reply'.arg].frozen_until = now + 30 * Day]
       /\ (reply'.op = "dump_freeze" /\ reply'.arg \in DOMAIN ideas) =>
             ideas' = [ideas EXCEPT ![reply'.arg].frozen_until = now + 90 * Day]
       /\ \A u \in Users, i \in IdeaIds :
             (/\ reply.op \in {"refreeze_idea", "dump_freeze"}
              /\ reply.arg = i
              /\ i \in IdsOf(ideas, u)
              /\ reply'.op = "clock"
              /\ now' < ideas[i].frozen_until) =>
                i \notin get_thawed_ideas(u)'
    ]_vars

\* C16 as stated: an export document is produced only for a user who is
\* premium at the time the scope is requested; a user who is not (one whose
\* premium ran out after the menu was shown included) gets no document.
C16_ExportNeedsPremium ==
    [][(reply'.op = "process_export" /\ NotPremiumAt(reply'.user))
          => reply'.kind = "need_premium"]_vars

\* The notes of a user that an export scope covers.
InScope(u, scope) ==
    {i \in IdsOf(ideas, u) : scope = "all" \/ ideas[i].is_valuable = 1}

\* C17 as stated: in a document of either scope the section of each note
\* has the star iff the note is valuable and a context line made of the
\* note's day of week followed by its time of day; in the valuable scope
\* the section of a note is the one the scope of all notes gives it.
C17_ExportSections ==
    [][(reply'.op = "process_export" /\ reply'.kind = "document") =>
          LET u == reply'.user
              scope == reply'.out[1]
              sections == reply'.out[2].sections
          IN  \E p \in ByCreatedDesc(ideas, InScope(u, scope)) :
                /\ Len(p) = Len(sections)
                /\ \A k \in 1 .. Len(p) :
                      /\ sections[k].star <=> ideas[p[k]].is_valuable = 1
                      /\ sections[k].context
                            = <<ideas[p[k]].day_of_week, ideas[p[k]].time_of_day>>
                      /\ scope = "valuable" =>
                            sections[k] = Section(AllRow(ideas[p[k]]))]_vars

\* The sections of a document are those of the notes in scope, one each, in
\* an order the query can return them in.
SectionPerNote(u, scope, sections) ==
    \E p \in ByCreatedDesc(ideas, InScope(u, scope)) :
        /\ Len(sections) = Len(p)
        /\ \A k \in 1 .. Len(p) :
              LET r == ideas[p[k]]
              IN  /\ sections[k].heading
                        = IF r.idea_type = "voice" THEN <<"voice">>
                          ELSE <<"date", strftime_date(r.created_at)>>
                  /\ sections[k].body
                        = IF r.idea_type = "voice" THEN NoText ELSE r.content

\* C18, amended: the formatter emits one section per note, in input order,
\* and for an empty list a document with the header only; the export
\* handler never formats an empty list: with no note in the chosen scope it
\* answers that there is nothing to export and sends no document.
C18_FormatterSections ==
    [][/\ export_to_markdown(<<>>, "all ideas").sections = <<>>
       /\ reply'.op = "process_export" =>
             LET u == reply'.user
                 scope == reply'.out[1]
             IN  IF InScope(u, scope) = {}
                 THEN reply'.kind = "empty" /\ Len(reply'.out) = 1
                 ELSE /\ reply'.kind = "document"
                      /\ reply'.arg = Cardinality(InScope(u, scope))
                      /\ SectionPerNote(u, scope, reply'.out[2].sections)]_vars

\* A document of two sections, the newer note first, was sent.
C18_Witness ==
    /\ reply.op = "process_export" /\ reply.kind = "document"
    /\ Len(reply.out[2].sections) = 2
    /\ reply.out[2].sections[1].heading # reply.out[2].sections[2].heading
    /\ \E i, j \in IdsOf(ideas, reply.user) : ideas[i].created_at > ideas[j].created_at

\* C18 as stated: as above, but the export of a scope with no note sends the
\* document with the header only.
C18_EmptyScopeDocument ==
    [][/\ export_to_markdown(<<>>, "all ideas").sections = <<>>
       /\ reply'.op = "process_export" =>
             /\ reply'.kind = "document"
             /\ SectionPerNote(reply'.user, reply'.out[1], reply'.out[2].sections)]_vars

\* The preview the search is to show: up to 40 characters before the first
\* occurrence of the query (letters compared without case), the occurrence,
\* up to 40 characters after it.
ContextPreview(content, query) ==
    LET pos == find(Lower(content), Lower(query))
        stop == pos + Len(query)
    IN  [before |-> Slice(content, Max(0, pos - PreviewWindow), pos),
         match |-> Slice(content, pos, stop),
         after |-> Slice(content, stop, stop + PreviewWindow)]

\* C19 as stated: every result of /find and of the search prompt shows the
\* context before the first occurrence of the query, the occurrence and the
\* context after it, and the two entry points build the same preview for
\* the note and the query.
C19_SearchPreview ==
    [][(reply'.op \in {"cmd_find", "process_search_query"} /\ reply'.kind = "found") =>
          \A k \in 1 .. Len(reply'.out) :
             LET hit == reply'.out[k]
                 content == ideas[hit.id].content
                 query == reply'.text
                 want == ContextPreview(content, query)
             IN  /\ hit.preview.found
                 /\ hit.preview.before = want.before
                 /\ hit.preview.match = want.match
                 /\ hit.preview.after = want.after
                 /\ cmd_find_preview(content, query)
                       = process_search_query_preview(content, query)]_vars

\* The pairs (new content, old content) of the texts in use, in lower case,
\* whose SequenceMatcher ratio is above 0.7: 1.0 for equal texts, 0.8 for
\* "ab" and "abc"; "abcdefghij" and "abcdefgxyz" are at 0.7 exactly.
AboveThreshold ==
    {<<Str_ab, Str_ab>>, <<Str_ab, Lower(Str_Abc)>>, <<Lower(Str_Abc), Str_ab>>,
     <<Lower(Str_Abc), Lower(Str_Abc)>>, <<Str_p10, Str_p10>>, <<Str_q10, Str_q10>>,
     <<Str_xy, Str_xy>>}

\* new_content and the content of note i are both present and their
\* ratio, letters compared without case, is above 0.7.
Matching(new_content, i) ==
    /\ new_content # NoText
    /\ ideas[i].content # NoText
    /\ <<Lower(new_content), Lower(ideas[i].content)>> \in AboveThreshold

\* Note i is among the 50 most recent notes of u in some order of the query.
MaybeRecent(u, i) ==
    Cardinality({j \in IdsOf(ideas, u) :
                    ideas[j].created_at > ideas[i].created_at}) < 50

\* C20: check_similarity(u, new_content) returns a note of u among the 50
\* most recent that matches, with no matching note of u newer than it, and
\* returns None only when none of the 50 most recent notes of u matches; a
\* pair with an empty string never matches, a ratio of 0.7 is no match.
C20_CheckSimilarity ==
    [][reply'.op = "check_similarity" =>
          LET u == reply'.user
              new_content == reply'.text
              found == reply'.arg
          IN  IF found # 0
              THEN /\ found \in IdsOf(ideas, u)
                   /\ MaybeRecent(u, found)
                   /\ Matching(new_content, found)
                   /\ \A j \in IdsOf(ideas, u) :
                         ideas[j].created_at > ideas[found].created_at
                            => ~Matching(new_content, j)
              ELSE \A i \in IdsOf(ideas, u) :
                      SurelyRecent(u, i) => ~Matching(new_content, i)]_vars

\* None was returned to a user whose only matching note is the 51st most
\* recent, while another user has a matching note too.
C20_Witness ==
    /\ reply.op = "check_similarity" /\ reply.arg = 0
    /\ \E i \in IdsOf(ideas, reply.user) :
          /\ Matching(reply.text, i)
          /\ Cardinality({j \in IdsOf(ideas, reply.user) :
                             ideas[j].created_at > ideas[i].created_at}) = SimWindow
    /\ \E j \in DOMAIN ideas : ideas[j].user_id # reply.user /\ Matching(reply.text, j)

\* C21 as stated: the ratio of a non-empty text with itself is 1.0, the
\* ratio of two texts is the same in both orders, and so is the verdict of
\* the duplicate gate (ratio above 0.7).
C21_RatioSymmetric ==
    reply.op = "SequenceMatcher" =>
       LET new_content == Lower(reply.text)
           old_content == Lower(reply.out[1])
           r == reply.out[2]
       IN  /\ (new_content # NoText /\ new_content = old_content) => r[1] = r[2]
           /\ r = ratio(old_content, new_content)
           /\ (10 * r[1] > 7 * r[2])
                 <=> RatioAbove07(old_content, new_content)

\* C22: the temperature printed on a note is cold for 0 opens, warm for 1
\* or 2, hot for 3 or more, whatever the note's expiry and other columns,
\* and the handlers that print it change no stored data.
C22_Temperature ==
    [][reply'.op \in {"cmd_thaw", "cmd_dump"} =>
          /\ \A k \in 1 .. Len(reply'.out) :
                LET n == ideas[reply'.out[k].id].opened_count
                IN  reply'.out[k].temp
                      = CASE n = 0 -> "cold"
                          [] n \in {1, 2} -> "warm"
                          [] OTHER -> "hot"
          /\ UNCHANGED db]_vars

\* A list showed a note opened twice as warm and one opened three times as
\* hot, the first of them frozen again.
C22_Witness ==
    /\ reply.op = "cmd_dump"
    /\ Len(reply.out) = 2
    /\ ideas[1].opened_count = 2 /\ reply.out[1] = [id |-> 1, temp |-> "warm"]
    /\ ideas[2].opened_count = 3 /\ reply.out[2] = [id |-> 2, temp |-> "hot"]
    /\ ideas[1].frozen_until > now

\* C23: an activation for a user whose premium flag is set puts the expiry
\* at now + the days of the plan, whatever the expiry was (also when it was
\* later), and activating the same plan once more at that instant would
\* leave the table as it is.
C23_Reactivate ==
    [][(/\ reply'.kind = "activated"
        /\ payments[reply'.arg].user_id \in DOMAIN users
        /\ users[payments[reply'.arg].user_id].is_premium = 1) =>
          LET u == payments[reply'.arg].user_id
              plan == payments[reply'.arg].plan_type
              days == CASE plan = "month" -> 30 [] plan = "year" -> 365 [] OTHER -> 36500
          IN  /\ users'[u].is_premium = 1
              /\ users'[u].premium_until = now + days * Day
              /\ activate_premium(users', u, plan, now) = users']_vars

\* A monthly plan was activated for a user who had been shown the export
\* menu, so was premium before.
C23_Witness ==
    /\ reply.kind = "activated"
    /\ payments[reply.arg].plan_type = "month"
    /\ HasBtn(reply.user, "export_all", 0)
    /\ users[reply.user].premium_until = now + 30 * Day

\* C24 as stated: after a status check of a pending payment the stored
\* status is paid when the gateway reported success, canceled when it
\* reported canceled, and otherwise still pending with the users table
\* unchanged; a stored status never leaves paid or canceled.
C24_StatusAfterCheck ==
    [][/\ (reply'.op = "check_payment_status" /\ reply'.arg \in DOMAIN payments
           /\ payments[reply'.arg].status = "pending") =>
             CASE reply'.kind = "activated" -> payments'[reply'.arg].status = "paid"
               [] reply'.kind = "canceled" -> payments'[reply'.arg].status = "canceled"
               [] OTHER -> /\ payments'[reply'.arg].status = "pending"
                           /\ users' = users
       /\ \A pid \in DOMAIN payments :
             payments[pid].status \in {"paid", "canceled"} =>
                payments'[pid].status = payments[pid].status]_vars

\* C25: a voice message from a user allowed to create a note ends with exactly
\* one voice note persisted, whatever fails in the transcription or in the
\* weather lookup (a transcript that repeats a recent note is staged instead).
MayCreate(u) ==
    LET user == get_user(users, u, now)
    IN  user.is_premium = 1 \/ user.ideas_count < FREE_LIMIT
C25_VoiceAlwaysSaved ==
    [][\A u \in Users :
          (reply'.op = "handle_voice" /\ reply'.user = u /\ MayCreate(u)
              /\ reply'.kind # "duplicate")
          => /\ DOMAIN ideas' = DOMAIN ideas \cup {idea_seq + 1}
             /\ (idea_seq + 1) \notin DOMAIN ideas
             /\ ideas'[idea_seq + 1].user_id = u
             /\ ideas'[idea_seq + 1].idea_type = "voice"]_vars

\* C26: a custom freeze period that is not an integer or not in 1..365, and
\* a search whose query is empty, are answered with the validation message
\* and leave every table as it was; no search runs with an empty query, from
\* /find or from the search prompt.
InvalidInput == {"not_a_number", "out_of_range", "usage"}
SearchOps == {"cmd_find", "process_search_query"}
C26_ValidationOnly ==
    [][/\ reply'.kind \in InvalidInput => UNCHANGED db
       /\ (reply'.op \in SearchOps /\ reply'.kind \in {"found", "nothing"})
             => reply'.text # <<>>]_vars

\* C27: opening an existing note raises its open-count by exactly one and
\* changes nothing else; opening a note that is gone is answered "not found"
\* and changes nothing; the open-count of a note changes in no other step,
\* so n views raise it by n and it never decreases.
C27_OpenCounts ==
    [][\A i \in 1 .. idea_seq :
          /\ (reply'.op = "open_idea" /\ reply'.arg = i /\ i \in DOMAIN ideas)
                => /\ reply'.kind = "opened"
                   /\ DOMAIN ideas' = DOMAIN ideas
                   /\ ideas'[i].opened_count = ideas[i].opened_count + 1
                   /\ ideas' = [ideas EXCEPT ![i].opened_count = ideas'[i].opened_count]
                   /\ UNCHANGED <<users, idea_seq, deleted_ideas, payments,
                                  temp_ideas, temp_photos, temp_voice>>
          /\ (reply'.op = "open_idea" /\ reply'.arg = i /\ i \notin DOMAIN ideas)
                => /\ reply'.kind = "not_found"
                   /\ UNCHANGED db
          /\ (i \in DOMAIN ideas /\ i \in DOMAIN ideas'
                /\ ideas'[i].opened_count # ideas[i].opened_count)
                => reply'.op = "open_idea" /\ reply'.arg = i]_vars
C27_Witness ==
    \E i, j \in DOMAIN ideas :
        /\ ideas[i].opened_count = 2
        /\ i # j /\ ideas[j].opened_count = 0
        /\ reply.op = "open_idea" /\ reply.kind = "opened" /\ reply.arg = i
C27_WitnessGone ==
    reply.op = "open_idea" /\ reply.kind = "not_found"

\* C28: every handler closes the connection it opened before it finishes,
\* on every path: between handlers no connection is open.
C28_NoOpenConnection == connections = 0

\* C29: when handlers of text messages of one user interleave at their
\* awaits, two messages with the same text never both become notes without
\* a confirmation: a handler that saves has just found no similar note in
\* the table as it is at that step, and afterwards the text is stored once.
SameText(i, j) ==
    ideas[i].user_id = ideas[j].user_id /\ ideas[i].content = ideas[j].content
C29_OneOfTwoSaved ==
    \A i, j \in DOMAIN ideas : SameText(i, j) => i = j
C29_Witness ==
    /\ reply.op = "handle_text" /\ reply.kind = "duplicate"
    /\ Len(tasks) = 0
    /\ \E i \in DOMAIN ideas :
          /\ ideas[i].content = reply.text
          /\ ideas[i].weather # NoWeather
          /\ reply.row[1].ideas_count = 0

\* C30: whatever notes were created, confirmed, deleted (the same id more
\* than once included) and marked valuable, the statistics of every user
\* balance: total = alive + deleted, valuable <= alive <= total, and the
\* survival rate is at most 100%.
C30_StatsBalance ==
    \A u \in DOMAIN users :
        LET stats == get_stats(u)
        IN  /\ stats.total = stats.alive + stats.deleted
            /\ stats.valuable <= stats.alive
            /\ stats.alive <= stats.total
            /\ survival(stats) <= 100

\* C31: a user who has never been premium never has a lifetime note count
\* above the free limit.
C31_FreeLimit ==
    \A u \in DOMAIN users :
        users[u].premium_until = NULL => users[u].ideas_count <= FREE_LIMIT

\* C32: pressing save-separately on a prompt persists the content that the
\* prompt was shown for and consumes that staging record only: the note
\* saved holds the content of one staged record of the user, that record is
\* removed, and every other staged record stays.
StagedOf(tbl, u) == {k \in 1 .. Len(tbl) : tbl[k].user_id = u}
C32_ConfirmOnePrompt ==
    [][\A u \in Users :
          (reply'.op = "save_new_text" /\ reply'.user = u /\ reply'.kind = "saved")
          => \E k \in StagedOf(temp_ideas, u) :
                /\ ideas'[idea_seq'].content = temp_ideas[k].content
                /\ temp_ideas' = SubSeq(temp_ideas, 1, k - 1)
                                     \o SubSeq(temp_ideas, k + 1, Len(temp_ideas))]_vars

\* C33: a confirmation that finds a staging record persists exactly one note
\* of the user, raises the note count by exactly one and leaves no staging
\* record of the user in that table, so that a second confirmation finds
\* none; a confirmation that finds none changes no table.
ConfirmOps == {"save_new_text", "save_new_photo", "save_voice_duplicate"}
StagingOf(op, texts, photos, voices) ==
    IF op = "save_new_text" THEN texts
    ELSE IF op = "save_new_photo" THEN photos
    ELSE voices
C33_ConfirmOnce ==
    [][\A u \in Users, op \in ConfirmOps :
          (reply'.op = op /\ reply'.user = u)
          => IF StagedOf(StagingOf(op, temp_ideas, temp_photos, temp_voice), u) # {}
             THEN /\ reply'.kind = "saved"
                  /\ DOMAIN ideas' = DOMAIN ideas \cup {idea_seq'}
                  /\ idea_seq' \notin DOMAIN ideas
                  /\ ideas'[idea_seq'].user_id = u
                  /\ \A i \in DOMAIN ideas : ideas'[i] = ideas[i]
                  /\ users'[u].ideas_count = users[u].ideas_count + 1
                  /\ StagedOf(StagingOf(op, temp_ideas', temp_photos', temp_voice'), u) = {}
             ELSE /\ reply'.kind = "nothing"
                  /\ UNCHANGED db]_vars
C33_Witness ==
    /\ reply.op \in ConfirmOps /\ reply.kind = "nothing"
    /\ \E i, j \in DOMAIN ideas :
          i # j /\ ideas[i].user_id = reply.user /\ SameText(i, j)

\* C34: a re-freeze only extends: after refreeze_idea or dump_freeze no
\* note has a freeze-expiry earlier than before the step.
RefreezeOps == {"refreeze_idea", "dump_freeze"}
C34_RefreezeExtends ==
    [][reply'.op \in RefreezeOps
          => \A i \in DOMAIN ideas :
                i \in DOMAIN ideas' /\ ideas'[i].frozen_until >= ideas[i].frozen_until]_vars

\* C35: an open, delete, re-freeze or mark-valuable event of one user, with
\* whatever note id, shows, changes or deletes no note of another user and
\* leaves the other user's statistics as they were.
NoteOps == {"open_idea", "delete_idea", "dump_delete", "refreeze_idea",
            "dump_freeze", "dump_valuable"}
C35_OwnNotesOnly ==
    [][\A a \in Users :
          (reply'.op \in NoteOps /\ reply'.user = a)
          => /\ \A i \in DOMAIN ideas :
                   ideas[i].user_id # a
                   => /\ i \in DOMAIN ideas'
                      /\ ideas'[i] = ideas[i]
                      /\ ~(reply'.op = "open_idea" /\ reply'.kind = "opened"
                             /\ reply'.arg = i)
             /\ \A b \in DOMAIN users \ {a} : get_stats(b)' = get_stats(b)]_vars


\* C36: open shows the full content of a note only when the note is thawed
\* (freeze-expiry <= now): no open step, reached from the show-old button of
\* a duplicate prompt, a search result or any other card, acts on a note
\* that is still frozen.
C36_OpenOnlyThawed ==
    [][\A i \in DOMAIN ideas :
          (reply'.op = "open_idea" /\ reply'.kind = "opened" /\ reply'.arg = i)
             => ideas[i].frozen_until <= now]_vars


PremiumFlag(us, u) == u \in DOMAIN us /\ us[u].is_premium = 1

\* C37: the premium flag of a user becomes true only in the activation step
\* of a status check whose payment record belongs to that same user and
\* which the gateway answered with success; no other step sets the flag of
\* any user.
C37_PremiumOnlyByPayment ==
    [][\A u \in Users :
          (~PremiumFlag(users, u) /\ PremiumFlag(users', u))
             => /\ reply'.op = "check_payment_status"
                /\ reply'.kind = "activated"
                /\ reply'.arg \in DOMAIN payments
                /\ payments[reply'.arg].user_id = u
                /\ \E k \in 1 .. Len(checks) :
                      /\ checks[k].payment_id = reply'.arg
                      /\ checks[k].status = "succeeded"]_vars


\* C38: every note created while its user is not premium, a user whose
\* premium has run out included, gets a freeze-expiry at most 30 days after
\* the moment of its creation.
C38_FreeNotesThirtyDays ==
    [][\A u \in Users :
          (/\ idea_seq' = idea_seq + 1
           /\ ideas'[idea_seq'].user_id = u
           /\ ~is_premium(users, u, now))
             => ideas'[idea_seq'].frozen_until <= now + 30 * Day]_vars


WaitOps == {"process_search_query", "process_custom_freeze", "process_city"}
TextMessageOps == WaitOps \cup {"handle_text", "btn_find", "cmd_freeze", "cmd_profile"}

====
